---- MODULE Spec2Model ----
(***************************************************************************)
(* Two-stage reply engine for one conversation.                            *)
(*                                                                         *)
(*   Stage A  staging_lambda/lambda_pkg/index.py   (webhook, synchronous)  *)
(*   Stage B  messaging_lambda/whatsapp/lambda_pkg/index.py (SQS worker)   *)
(*                                                                         *)
(* The shared state is the conversation row, the staging table, the        *)
(* trigger-lock table and the WhatsApp trigger queue.  Every DynamoDB or   *)
(* SQS call is one atomic step; the steps of concurrent invocations        *)
(* interleave freely.  Failures of the collaborators (DynamoDB, SQS,       *)
(* Secrets Manager, OpenAI, Twilio, the heartbeat's ChangeMessageVisi-     *)
(* bility), TTL expiry and visibility-timeout redelivery are environment   *)
(* events; their number per behaviour is bounded by MaxFaults.             *)
(***************************************************************************)
EXTENDS Integers, Sequences, FiniteSets, TLC

\* ---------------------------------------------------------------- bounds
MaxFaults  == 1     \* environment events (failures, TTL expiry, lease expiry)
MaxThreads == 2     \* background threads one heartbeat object may create
MaxExtensions == 3  \* change_message_visibility calls of one heartbeat object
MaxRecords == 2     \* records of one batch handed to the Stage B handler
MaxCallSeconds == 1 \* seconds one call to the AI API may take
MaxRows == 2        \* rows of the conversations table a webhook is looked up in
MaxReceive == 2     \* maxReceiveCount of the queue's redrive policy

Workers == {1, 2}   \* concurrent Stage B invocations
Reqs    == {1, 2}   \* webhook invocations of Stage A, in order of arrival
Sids    == {1, 2}   \* provider message sids
Times   == {0, 1}   \* received_at values (seconds)

\* ------------------------------------------------------- program constants
PROCESSING_STATUS == "processing_reply"
LOCK_ACQUIRED     == "ACQUIRED"
LOCK_EXISTS       == "EXISTS"
DB_ERROR          == "DB_ERROR"
DB_SUCCESS        == "SUCCESS"
DB_LOCK_LOST      == "LOCK_LOST"

TRANSIENT_ERROR_CODES ==
    { "DB_TRANSIENT_ERROR", "STAGE_DB_TRANSIENT_ERROR",
      "TRIGGER_DB_TRANSIENT_ERROR", "SQS_TRANSIENT_ERROR",
      "SECRET_FETCH_TRANSIENT_ERROR" }

\* sqs_service.BATCH_WINDOW_SECONDS (default of the environment variable).
BATCH_WINDOW_SECONDS == 10

\* Body of the fragment with a given sid (a provider retry resends the same body).
BodyOf(sid) == <<"Hello", "there,", "how are you?", "bye">>[sid]

NoRow == [received_at |-> -1]

VARIABLES
    conversation_status,  \* conversation row: conversation_status
    message_history,      \* conversation row: message_history (list of turns)
    stage_table,          \* conversations-stage table: sid -> row or NoRow
    trigger_lock,         \* conversations-trigger-lock table: row present?
    queue,                \* trigger queue: sequence of [state, receives]
    budget,               \* environment events still allowed
    req,                  \* Stage A invocations
    wk,                   \* Stage B invocations
    provider_sends,       \* log: sid -> number of replies Twilio delivered for it
    enq_since_commit,     \* log: triggers enqueued since the last successful commit
    lock_lost_sids,       \* log: sids of batches whose commit returned LOCK_LOST
    committed_sids,       \* log: sids included in a committed user turn
    deferred,             \* log: sids not committed yet whose webhook found
                          \*      the trigger lock already held
    lock_owner,           \* log: the worker whose acquisition of the processing
                          \*      lock is the latest and has not been committed or
                          \*      released since, 0 if there is none
    heartbeat,            \* one SQSHeartbeat object with its threads
    batch,                \* one Stage B invocation over a batch of records
    run,                  \* one call of process_reply_with_ai
    webhook               \* one webhook followed through the identifiers it uses

vars == << conversation_status, message_history, stage_table, trigger_lock,
           queue, budget, req, wk, provider_sends, enq_since_commit,
           lock_lost_sids, committed_sids, deferred, lock_owner, heartbeat,
           batch, run, webhook >>

\* The conversation row, with the log of its lock.
conv_vars  == << conversation_status, message_history, lock_owner >>
log_vars   == << provider_sends, enq_since_commit, lock_lost_sids,
                 committed_sids, deferred >>

\* Objects that are modelled on their own, step by step.
obj_vars   == << heartbeat, batch, run, webhook >>

\* No response has been produced yet.
NoResponse == [kind |-> "NONE", statusCode |-> 0]

\* No message has been handed to SQS yet.
NoMessage == [queue |-> "NONE", body |-> "NONE", delay |-> 0]

\* The attributes of the conversation row that this system never writes: an
\* active project that allows whatsapp, with no automatic handoff.
ConversationConfig ==
    [project_status |-> "active", allowed_channels |-> {"whatsapp"},
     auto_queue_reply_message |-> FALSE,
     auto_queue_reply_message_from_number |-> {}, recipient_tel |-> "+1",
     auto_queue_reply_message_from_email |-> {}, recipient_email |-> "none"]

IdleReq    == [pc |-> "idle", sid |-> 0, sig |-> "none", code |-> "NONE", effects |-> {},
               channel_type |-> "none", response |-> NoResponse,
               db_data |-> ConversationConfig, route |-> "NONE", sent |-> NoMessage]
IdleWorker == [pc |-> "idle", msg |-> 0, lock_status |-> "NONE", items |-> << >>,
               receipt |-> 0, failed |-> FALSE, twilio_response |-> 0,
               update_status |-> "NONE", hb |-> "none", failure |-> "NONE"]

ThreadIds == 1..MaxThreads

\* SQSHeartbeat.__init__: the object before any start().  threads is the pc
\* of each background thread (_run), extensions the number of
\* change_message_visibility calls issued, caller the pc of the handler
\* thread that uses the object, after where it goes on when stop() returns.
NewHeartbeat ==
    [_stop_event |-> FALSE, _thread |-> 0, _error |-> 0, _running |-> FALSE,
     threads |-> [t \in ThreadIds |-> "unborn"], extensions |-> 0,
     caller |-> "ready", after |-> "ready"]

\* No batch handled, no AI call made, no webhook followed.
NoBatch == [pc |-> "idle"]
NoRun == [pc |-> "idle"]
NoWebhook == [pc |-> "idle"]

ObjIdle ==
    /\ heartbeat = NewHeartbeat
    /\ batch = NoBatch
    /\ run = NoRun
    /\ webhook = NoWebhook

Init ==
    /\ conversation_status = "template_sent"
    /\ message_history = << >>
    /\ lock_owner = 0
    /\ stage_table = [s \in Sids |-> NoRow]
    /\ trigger_lock = FALSE
    /\ queue = << >>
    /\ budget = MaxFaults
    /\ req = [r \in Reqs |-> IdleReq]
    /\ wk = [w \in Workers |-> IdleWorker]
    /\ provider_sends = [s \in Sids |-> 0]
    /\ enq_since_commit = 0
    /\ lock_lost_sids = {}
    /\ committed_sids = {}
    /\ deferred = {}
    /\ ObjIdle

CanFault == budget > 0
Fault    == budget' = budget - 1
NoFault  == UNCHANGED budget


\* ======================================================================
\* Pure helpers
\* ======================================================================

\* response_builder.create_success_response_twiml: HTTP 200, empty <Response/>.
create_success_response_twiml == [kind |-> "TWIML_EMPTY", statusCode |-> 200]

\* response_builder.create_success_response_json: HTTP 200, JSON body.
create_success_response_json == [kind |-> "JSON_SUCCESS", statusCode |-> 200]

\* response_builder.create_twiml_error_response with the 'please wait'
\* message: HTTP 200, <Response><Message>...</Message></Response>.
create_twiml_error_response == [kind |-> "TWIML_WAIT", statusCode |-> 200]

\* response_builder.create_error_response: JSON error body, the status code
\* taken from status_code_mapping, 500 for a code that is not in it.
create_error_response(error_code) ==
    [kind |-> "JSON_ERROR",
     statusCode |->
        IF error_code \in {"INVALID_INPUT", "MISSING_REQUIRED_FIELD", "UNKNOWN_CHANNEL",
                           "PARSING_ERROR", "VALIDATION_FAILED"} THEN 400
        ELSE IF error_code = "CONVERSATION_NOT_FOUND" THEN 404
        ELSE IF error_code \in {"PROJECT_INACTIVE", "CHANNEL_NOT_ALLOWED"} THEN 403
        ELSE IF error_code = "CONVERSATION_LOCKED" THEN 409
        ELSE IF error_code = "DB_TRANSIENT_ERROR" THEN 503
        ELSE 500]

\* The exception raised for API Gateway to map: no response is returned.
RaisedException == [kind |-> "RAISE", statusCode |-> 0]

\* Faulty variant: CONVERSATION_LOCKED is answered like any other
\* non-transient code.
error_response_without_wait(channel_type, error_code) ==
    IF channel_type \in {"whatsapp", "sms"}
    THEN IF error_code \in TRANSIENT_ERROR_CODES THEN RaisedException
         ELSE create_success_response_twiml
    ELSE create_error_response(error_code)

\* index._determine_final_error_response.
DetermineFinalErrorResponse(channel_type, error_code) ==
    IF channel_type \in {"whatsapp", "sms"}
    THEN IF error_code \in TRANSIENT_ERROR_CODES THEN RaisedException
         ELSE IF error_code = "CONVERSATION_LOCKED" THEN create_twiml_error_response
         ELSE IF error_code = "INVALID_SIGNATURE" THEN create_success_response_twiml
         ELSE create_success_response_twiml
    ELSE create_error_response(error_code)

\* What the handler returns for an outcome code: the acknowledgement of
\* step 9 for a queued ("OK") or deferred ("EXISTS") fragment, the error
\* mapping for every other code.
FinalResponse(channel_type, code) ==
    IF code \in {"OK", "EXISTS"}
    THEN IF channel_type \in {"whatsapp", "sms"}
         THEN create_success_response_twiml
         ELSE create_success_response_json
    ELSE DetermineFinalErrorResponse(channel_type, code)

\* Faulty variant: a locked conversation passes the rules.
validate_rules_without_lock(ctx) ==
    IF ctx.project_status # "active" THEN "PROJECT_INACTIVE"
    ELSE IF ctx.channel_type \notin ctx.allowed_channels THEN "CHANNEL_NOT_ALLOWED"
    ELSE "VALID"

\* Faulty variant: the channel rule is checked before the project rule.
validate_rules_channel_first(ctx) ==
    IF ctx.channel_type \notin ctx.allowed_channels THEN "CHANNEL_NOT_ALLOWED"
    ELSE IF ctx.project_status # "active" THEN "PROJECT_INACTIVE"
    ELSE IF ctx.conversation_status = "processing_reply" THEN "CONVERSATION_LOCKED"
    ELSE "VALID"

\* validation.validate_conversation_rules on the hydrated context.
validate_conversation_rules(ctx) ==
    IF ctx.project_status # "active" THEN "PROJECT_INACTIVE"
    ELSE IF ctx.channel_type \notin ctx.allowed_channels THEN "CHANNEL_NOT_ALLOWED"
    ELSE IF ctx.conversation_status = "processing_reply" THEN "CONVERSATION_LOCKED"
    ELSE "VALID"

\* Context of the webhook of invocation record rec after
\* context_object.update(db_data).
HydratedContext(rec) ==
    [project_status      |-> rec.db_data.project_status,
     allowed_channels    |-> rec.db_data.allowed_channels,
     channel_type        |-> rec.channel_type,
     conversation_status |-> conversation_status,
     auto_queue_reply_message |-> rec.db_data.auto_queue_reply_message,
     auto_queue_reply_message_from_number |->
         rec.db_data.auto_queue_reply_message_from_number,
     recipient_tel       |-> rec.db_data.recipient_tel,
     auto_queue_reply_message_from_email |->
         rec.db_data.auto_queue_reply_message_from_email,
     recipient_email     |-> rec.db_data.recipient_email]

\* Faulty variant: the channel-specific auto-queue lists are not consulted.
route_without_auto_queue_lists(ctx) ==
    IF ctx.auto_queue_reply_message = TRUE THEN "HANDOFF_QUEUE"
    ELSE IF ctx.channel_type = "whatsapp" THEN "WHATSAPP_QUEUE"
    ELSE IF ctx.channel_type = "sms" THEN "SMS_QUEUE"
    ELSE IF ctx.channel_type = "email" THEN "EMAIL_QUEUE"
    ELSE "NONE"

\* routing.determine_target_queue; "none" stands for a recipient identifier
\* that is missing or empty, "NONE" for the None the function returns.
determine_target_queue(ctx) ==
    IF ctx.auto_queue_reply_message = TRUE THEN "HANDOFF_QUEUE"
    ELSE IF /\ ctx.channel_type \in {"whatsapp", "sms"}
            /\ ctx.recipient_tel # "none"
            /\ ctx.recipient_tel \in ctx.auto_queue_reply_message_from_number
         THEN "HANDOFF_QUEUE"
    ELSE IF /\ ctx.channel_type = "email"
            /\ ctx.recipient_email # "none"
            /\ ctx.recipient_email \in ctx.auto_queue_reply_message_from_email
         THEN "HANDOFF_QUEUE"
    ELSE IF ctx.channel_type = "whatsapp" THEN "WHATSAPP_QUEUE"
    ELSE IF ctx.channel_type = "sms" THEN "SMS_QUEUE"
    ELSE IF ctx.channel_type = "email" THEN "EMAIL_QUEUE"
    ELSE "NONE"

\* query_staging_table: DynamoDB returns the partition's rows in sort-key
\* (message_sid) order.
RECURSIVE RowsOf(_, _)
RowsOf(tbl, S) ==
    IF S = {} THEN << >>
    ELSE LET s == CHOOSE x \in S : \A y \in S : x <= y IN
         (IF tbl[s] = NoRow THEN << >>
          ELSE << [message_sid |-> s, received_at |-> tbl[s].received_at] >>)
         \o RowsOf(tbl, S \ {s})

query_staging_table(tbl) == RowsOf(tbl, Sids)

\* Faulty variant: the sort key is received_at alone.
KeyLessByTimeOnly(a, b) == a.received_at < b.received_at

\* Sort key of the merge: (received_at, message_sid), compared as Python tuples.
KeyLess(a, b) ==
    \/ a.received_at < b.received_at
    \/ a.received_at = b.received_at /\ a.message_sid < b.message_sid

\* Faulty variant: the rows are left in the order the query returned them.
KeepQueryOrder(s) == s

\* staged_items.sort(key=...): stable insertion of each item after the
\* items whose key is not greater.
RECURSIVE InsertSorted(_, _)
InsertSorted(x, s) ==
    IF s = << >> THEN << x >>
    ELSE IF KeyLess(x, Head(s)) THEN << x >> \o s
    ELSE << Head(s) >> \o InsertSorted(x, Tail(s))

RECURSIVE SortItems(_)
SortItems(s) ==
    IF s = << >> THEN << >>
    ELSE InsertSorted(s[Len(s)], SortItems(SubSeq(s, 1, Len(s) - 1)))

\* "\n".join(item['body'] for item in staged_items)
RECURSIVE JoinBodies(_)
JoinBodies(s) ==
    IF s = << >> THEN ""
    ELSE IF Len(s) = 1 THEN BodyOf(s[1].message_sid)
    ELSE BodyOf(s[1].message_sid) \o "\n" \o JoinBodies(Tail(s))

combined_body(items)     == JoinBodies(SortItems(items))
first_message_sid(items) == SortItems(items)[1].message_sid
SidsOf(items)            == { items[i].message_sid : i \in 1..Len(items) }

RECURSIVE SumOver(_, _)
SumOver(f, S) ==
    IF S = {} THEN 0
    ELSE LET s == CHOOSE x \in S : TRUE IN f[s] + SumOver(f, S \ {s})

\* Number of (fragment, reply) deliveries logged so far.
TotalSends(f) == SumOver(f, Sids)

\* Twilio's sid of the n-th delivered reply (distinct from every fragment sid).
ReplySid(n) == Cardinality(Sids) + n

user_message_map(items) ==
    [message_id |-> first_message_sid(items), role |-> "user",
     content |-> combined_body(items)]

assistant_message_map(n) ==
    [message_id |-> ReplySid(n), role |-> "assistant", content |-> "AI Reply"]


\* ======================================================================
\* Stage A: staging_lambda/lambda_pkg/index.py handler
\* ======================================================================

\* Rule validation and routing of a hydrated invocation: the record of the
\* invocation after the two steps.
RulesAndRoute(rec) ==
    LET rules == validate_conversation_rules(HydratedContext(rec))
        route == determine_target_queue(HydratedContext(rec))
        Rejected(code) ==
            [rec EXCEPT !.pc = "done", !.code = code, !.effects = {"fetch", "rules"},
                        !.response = FinalResponse(rec.channel_type, code)]
    IN
    IF rules # "VALID" THEN Rejected(rules)
    ELSE IF route = "NONE" THEN Rejected("ROUTING_ERROR")
    ELSE [rec EXCEPT !.pc = "stage", !.route = route,
                     !.effects = {"fetch", "rules", "route"}]

ReqDone(r, code, eff) ==
    req' = [req EXCEPT ![r].pc = "done", ![r].code = code,
                       ![r].effects = req[r].effects \cup eff,
                       ![r].response = FinalResponse(req[r].channel_type, code)]

ReqGoto(r, pc, eff) ==
    req' = [req EXCEPT ![r].pc = pc, ![r].effects = req[r].effects \cup eff]

\* Faulty variant: the signature is not looked at.
signature_unchecked(sig) == TRUE

\* Signature gate: the X-Twilio-Signature header is present and
\* RequestValidator.validate(url, params, signature) is True.
signature_ok(sig) == sig = "valid"

\* Steps 1-6 of the handler: parse, credential lookup, secret fetch,
\* signature validation, full conversation fetch, rule validation, routing.
AValidate(r) ==
    /\ req[r].pc = "idle"
    /\ \A q \in Reqs : q < r => req[q].pc # "idle"
    /\ \E sid \in Sids, sig \in {"valid", "invalid", "missing"} :
         LET q == [req EXCEPT ![r].sid = sid, ![r].sig = sig,
                              ![r].channel_type = "whatsapp"]
             Done(code, eff) ==
                 [q EXCEPT ![r].pc = "done", ![r].code = code, ![r].effects = eff,
                           ![r].response = FinalResponse(q[r].channel_type, code)]
         IN
         \/ \* credential lookup or secret fetch fails (before the signature check)
            /\ CanFault /\ Fault
            /\ \E code \in {"DB_TRANSIENT_ERROR", "SECRET_FETCH_FAILED"} :
                 req' = Done(code, {})
         \/ \* missing header, or validator.validate(...) is False
            /\ ~signature_ok(sig) /\ NoFault
            /\ req' = Done("INVALID_SIGNATURE", {})
         \/ \* get_full_conversation fails
            /\ signature_ok(sig) /\ CanFault /\ Fault
            /\ req' = Done("DB_TRANSIENT_ERROR", {"fetch"})
         \/ \* validate_conversation_rules, then determine_target_queue
            /\ signature_ok(sig) /\ NoFault
            /\ req' = [q EXCEPT ![r] = RulesAndRoute(q[r])]
    /\ UNCHANGED << conv_vars, stage_table, trigger_lock, queue, wk, log_vars >>
    /\ UNCHANGED obj_vars

\* The handler returns (or raises): the invocation is over.
AReturn(r) ==
    /\ req[r].pc = "done"
    /\ req' = [req EXCEPT ![r] = [IdleReq EXCEPT !.pc = "returned"]]
    /\ UNCHANGED << conv_vars, stage_table, trigger_lock, queue, budget, wk, log_vars >>
    /\ UNCHANGED obj_vars

\* dynamodb_service.write_to_stage_table: unconditional put_item keyed by
\* (conversation_id, message_sid), received_at = int(time.time()) of the
\* host that runs the invocation.
write_to_stage_table(tbl, sid, t) == [tbl EXCEPT ![sid] = [received_at |-> t]]

\* Faulty variant: the handler goes on to the trigger lock whatever the
\* staging write returned.
AStageIgnoringFailure(r) ==
    /\ req[r].pc = "stage"
    /\ \/ /\ NoFault
          /\ \E t \in Times :
               stage_table' = write_to_stage_table(stage_table, req[r].sid, t)
          /\ ReqGoto(r, IF req[r].route = "HANDOFF_QUEUE" THEN "send" ELSE "lock",
                     {"stage"})
       \/ /\ CanFault /\ Fault
          /\ ReqGoto(r, "lock", {})
          /\ UNCHANGED stage_table
    /\ UNCHANGED << conv_vars, trigger_lock, queue, wk, log_vars >>
    /\ UNCHANGED obj_vars

AStage(r) ==
    /\ req[r].pc = "stage"
    /\ \/ /\ NoFault
          /\ \E t \in Times :
               stage_table' = write_to_stage_table(stage_table, req[r].sid, t)
          /\ \* the handoff route goes straight to the send
             ReqGoto(r, IF req[r].route = "HANDOFF_QUEUE" THEN "send" ELSE "lock",
                     {"stage"})
       \/ /\ CanFault /\ Fault
          /\ \E code \in {"STAGE_DB_TRANSIENT_ERROR", "STAGE_WRITE_ERROR"} :
               ReqDone(r, code, {})
          /\ UNCHANGED stage_table
    /\ UNCHANGED << conv_vars, trigger_lock, queue, wk, log_vars >>
    /\ UNCHANGED obj_vars

\* dynamodb_service.acquire_trigger_lock: put_item with
\* ConditionExpression attribute_not_exists(conversation_id).
acquire_trigger_lock(present) == IF present THEN "EXISTS" ELSE "ACQUIRED"

ATriggerLock(r) ==
    /\ req[r].pc = "lock"
    /\ \/ /\ NoFault
          /\ acquire_trigger_lock(trigger_lock) = "ACQUIRED"
          /\ trigger_lock' = TRUE
          /\ ReqGoto(r, "send", {"trigger_lock"})
          /\ UNCHANGED deferred
       \/ /\ NoFault
          /\ acquire_trigger_lock(trigger_lock) = "EXISTS"
          /\ UNCHANGED trigger_lock
          /\ ReqDone(r, "EXISTS", {})
          /\ deferred' = deferred \cup ({req[r].sid} \ committed_sids)
       \/ /\ CanFault /\ Fault
          /\ \E code \in {"TRIGGER_DB_TRANSIENT_ERROR", "TRIGGER_LOCK_WRITE_ERROR"} :
               ReqDone(r, code, {})
          /\ UNCHANGED << trigger_lock, deferred >>
    /\ UNCHANGED << conv_vars, stage_table, queue, wk, provider_sends,
                    enq_since_commit, lock_lost_sids, committed_sids >>
    /\ UNCHANGED obj_vars

\* Faulty variant: every queue gets the delayed minimal trigger.
send_trigger_to_any_queue(target_queue) ==
    [queue |-> target_queue, body |-> "conversation_id,primary_channel",
     delay |-> BATCH_WINDOW_SECONDS]

\* sqs_service.send_message_to_queue: the message handed to sqs.send_message,
\* the full context with no delay for the handoff queue, the trigger
\* {conversation_id, primary_channel} with DelaySeconds = BATCH_WINDOW_SECONDS
\* for a channel queue.
send_message_to_queue(target_queue) ==
    IF target_queue = "HANDOFF_QUEUE"
    THEN [queue |-> target_queue, body |-> "full_context", delay |-> 0]
    ELSE [queue |-> target_queue, body |-> "conversation_id,primary_channel",
          delay |-> BATCH_WINDOW_SECONDS]

\* The send of step 7.  The variable queue is the whatsapp channel queue,
\* the one Stage B consumes; a message for another queue is only recorded
\* in the invocation.
ASend(r) ==
    /\ req[r].pc = "send"
    /\ \/ /\ NoFault
          /\ LET msg == send_message_to_queue(req[r].route) IN
             /\ queue' = IF msg.queue = "WHATSAPP_QUEUE"
                          THEN Append(queue, [state |-> "visible", receives |-> 0])
                          ELSE queue
             /\ enq_since_commit' = IF msg.queue = "WHATSAPP_QUEUE"
                                     THEN enq_since_commit + 1
                                     ELSE enq_since_commit
             /\ req' = [req EXCEPT ![r].pc = "done", ![r].code = "OK",
                                   ![r].effects = req[r].effects \cup {"send"},
                                   ![r].response = FinalResponse(req[r].channel_type, "OK"),
                                   ![r].sent = msg]
       \/ /\ CanFault /\ Fault
          /\ \E code \in {"SQS_TRANSIENT_ERROR", "SQS_SEND_ERROR"} :
               ReqDone(r, code, {})
          /\ UNCHANGED << queue, enq_since_commit >>
    /\ UNCHANGED << conv_vars, stage_table, trigger_lock, wk,
                    provider_sends, lock_lost_sids, committed_sids, deferred >>
    /\ UNCHANGED obj_vars


\* ======================================================================
\* The trigger queue (SQS standard queue with a redrive policy)
\* ======================================================================

MsgIds == 1..Len(queue)

\* Faulty variant: a reported record is deleted like an acknowledged one.
fail_deletes_message(q, m, receipt) ==
    IF q[m].state = "inflight" /\ q[m].receives = receipt
    THEN [q EXCEPT ![m].state = "deleted"]
    ELSE q

\* The record is reported in batchItemFailures: it is not deleted and becomes
\* visible again, or is dead-lettered once maxReceiveCount is reached.  A
\* report under a receipt that is no longer the current one changes nothing.
FailMessage(q, m, receipt) ==
    IF q[m].state = "inflight" /\ q[m].receives = receipt
    THEN [q EXCEPT ![m].state = IF q[m].receives >= MaxReceive THEN "dlq" ELSE "visible"]
    ELSE q

\* The record is not reported: Lambda deletes it from the queue.
AckMessage(q, m) ==
    IF q[m].state = "dlq" THEN q ELSE [q EXCEPT ![m].state = "deleted"]

\* Deletion under a receipt that is no longer the current one: SQS may or
\* may not delete the message.
AckOutcomes(q, m, receipt) ==
    IF q[m].state = "inflight" /\ q[m].receives = receipt
    THEN { AckMessage(q, m) }
    ELSE { q, AckMessage(q, m) }

\* The lease of an in-flight message runs out before the worker is done.
VisibilityTimeout(m) ==
    /\ m \in MsgIds
    /\ queue[m].state = "inflight"
    /\ CanFault /\ Fault
    /\ queue' = FailMessage(queue, m, queue[m].receives)
    /\ UNCHANGED << conv_vars, stage_table, trigger_lock, req, wk, log_vars >>
    /\ UNCHANGED obj_vars

\* ======================================================================
\* Stage B: messaging_lambda/whatsapp/lambda_pkg/index.py handler
\* ======================================================================

\* Faulty variant: the lock is taken whatever the current status.
acquire_lock_unconditional(status) ==
    [result |-> LOCK_ACQUIRED, status |-> PROCESSING_STATUS]

\* dynamodb_service.acquire_processing_lock: SET conversation_status =
\* processing_reply IF attribute_not_exists(conversation_status) OR
\* conversation_status <> processing_reply.
acquire_processing_lock(status) ==
    IF status # PROCESSING_STATUS
    THEN [result |-> LOCK_ACQUIRED, status |-> PROCESSING_STATUS]
    ELSE [result |-> LOCK_EXISTS, status |-> status]

\* Steps 1, 2 and 3a: parse the record, acquire the processing lock, start
\* the heartbeat (the record carries a receipt handle, so the heartbeat
\* starts).  A record that is skipped (EXISTS) or failed (DB_ERROR) here ends
\* the invocation at once.
BReceive(w, m) ==
    /\ wk[w].pc = "idle"
    /\ \A v \in Workers : v < w => wk[v].pc # "idle"
    /\ m \in MsgIds
    /\ queue[m].state = "visible"
    /\ LET q   == [queue EXCEPT ![m].state = "inflight", ![m].receives = @ + 1]
           res == acquire_processing_lock(conversation_status)
       IN
       \/ /\ res.result = LOCK_ACQUIRED
          /\ conversation_status' = res.status
          /\ lock_owner' = w
          /\ queue' = q
          /\ NoFault
          /\ wk' = [wk EXCEPT ![w] = [IdleWorker EXCEPT
                      !.pc = "query", !.msg = m, !.receipt = q[m].receives,
                      !.lock_status = LOCK_ACQUIRED, !.hb = "running"]]
       \/ /\ res.result = LOCK_EXISTS
          /\ NoFault
          /\ queue' = AckMessage(q, m)
          /\ UNCHANGED << conversation_status, lock_owner, wk >>
       \/ \* DB_ERROR
          /\ CanFault /\ Fault
          /\ queue' = FailMessage(q, m, q[m].receives)
          /\ UNCHANGED << conversation_status, lock_owner, wk >>
    /\ UNCHANGED << message_history, stage_table, trigger_lock, req, log_vars >>
    /\ UNCHANGED obj_vars

\* Faulty variant: an empty batch is reported in batchItemFailures.
BQueryFailsEmptyBatch(w) ==
    /\ wk[w].pc = "query"
    /\ \/ /\ CanFault /\ Fault
          /\ wk' = [wk EXCEPT ![w].pc = "finally", ![w].failed = TRUE,
                              ![w].failure = "STAGING_QUERY"]
       \/ /\ NoFault
          /\ query_staging_table(stage_table) = << >>
          /\ wk' = [wk EXCEPT ![w].pc = "finally", ![w].failed = TRUE]
       \/ /\ NoFault
          /\ query_staging_table(stage_table) # << >>
          /\ wk' = [wk EXCEPT ![w].pc = "process",
                              ![w].items = query_staging_table(stage_table)]
    /\ UNCHANGED << conv_vars, stage_table, trigger_lock, queue, req, log_vars >>
    /\ UNCHANGED obj_vars

\* Steps 3 and 4: query the staging table.
BQuery(w) ==
    /\ wk[w].pc = "query"
    /\ \/ \* staged_items is None
          /\ CanFault /\ Fault
          /\ wk' = [wk EXCEPT ![w].pc = "finally", ![w].failed = TRUE,
                              ![w].failure = "STAGING_QUERY"]
       \/ \* empty batch: continue without reporting a failure
          /\ NoFault
          /\ query_staging_table(stage_table) = << >>
          /\ wk' = [wk EXCEPT ![w].pc = "finally"]
       \/ /\ NoFault
          /\ query_staging_table(stage_table) # << >>
          /\ wk' = [wk EXCEPT ![w].pc = "process",
                              ![w].items = query_staging_table(stage_table)]
    /\ UNCHANGED << conv_vars, stage_table, trigger_lock, queue, req, log_vars >>
    /\ UNCHANGED obj_vars

PreCommitFailures ==
    { "CONVERSATION_FETCH", "SECRET_TRANSIENT", "SECRET_PERMANENT",
      "AI_TRANSIENT", "AI_NON_TRANSIENT", "TWILIO_TRANSIENT", "TWILIO_NON_TRANSIENT" }

\* Faulty variant: a failed step does not stop the record, which goes on to
\* the commit.
BProcessIgnoringFailure(w) ==
    /\ wk[w].pc = "process"
    /\ \/ /\ CanFault /\ Fault
          /\ \E kind \in PreCommitFailures :
               wk' = [wk EXCEPT ![w].pc = "commit", ![w].failed = TRUE,
                                ![w].failure = kind]
          /\ UNCHANGED provider_sends
       \/ /\ NoFault
          /\ provider_sends' = [s \in Sids |-> IF s \in SidsOf(wk[w].items)
                                                THEN provider_sends[s] + 1
                                                ELSE provider_sends[s]]
          /\ wk' = [wk EXCEPT ![w].pc = "commit",
                              ![w].twilio_response = TotalSends(provider_sends) + 1]
    /\ UNCHANGED << conv_vars, stage_table, trigger_lock, queue, req,
                    enq_since_commit, lock_lost_sids, committed_sids, deferred >>
    /\ UNCHANGED obj_vars

\* Steps 5 to 10: merge, hydrate the conversation, fetch secrets, run the
\* assistant, send the reply through Twilio.
BProcess(w) ==
    /\ wk[w].pc = "process"
    /\ \/ /\ CanFault /\ Fault
          /\ \E kind \in PreCommitFailures :
               wk' = [wk EXCEPT ![w].pc = "finally", ![w].failed = TRUE,
                                ![w].failure = kind]
          /\ UNCHANGED provider_sends
       \/ \* TWILIO_SUCCESS
          /\ NoFault
          /\ provider_sends' = [s \in Sids |-> IF s \in SidsOf(wk[w].items)
                                                THEN provider_sends[s] + 1
                                                ELSE provider_sends[s]]
          /\ wk' = [wk EXCEPT ![w].pc = "commit",
                              ![w].twilio_response = TotalSends(provider_sends) + 1]
    /\ UNCHANGED << conv_vars, stage_table, trigger_lock, queue, req,
                    enq_since_commit, lock_lost_sids, committed_sids, deferred >>
    /\ UNCHANGED obj_vars

\* Faulty variant: the update appends the user turn only.
update_user_turn_only(status, history, user_map, assistant_map, new_status) ==
    IF status = PROCESSING_STATUS
    THEN [result |-> DB_SUCCESS, status |-> new_status,
          history |-> history \o << user_map >>]
    ELSE [result |-> DB_LOCK_LOST, status |-> status, history |-> history]

\* Faulty variant: the update carries no condition on conversation_status.
update_unconditional(status, history, user_map, assistant_map, new_status) ==
    [result |-> DB_SUCCESS, status |-> new_status,
     history |-> history \o << user_map, assistant_map >>]

\* Faulty variant: the update sets the history to the two new maps instead
\* of appending them.
update_overwrites_history(status, history, user_map, assistant_map, new_status) ==
    IF status = PROCESSING_STATUS
    THEN [result |-> DB_SUCCESS, status |-> new_status,
          history |-> << user_map, assistant_map >>]
    ELSE [result |-> DB_LOCK_LOST, status |-> status, history |-> history]

\* dynamodb_service.update_conversation_after_reply: one update_item that
\* appends both maps and sets the status, IF conversation_status =
\* processing_reply.
update_conversation_after_reply(status, history, user_map, assistant_map, new_status) ==
    IF status = PROCESSING_STATUS
    THEN [result |-> DB_SUCCESS, status |-> new_status,
          history |-> history \o << user_map, assistant_map >>]
    ELSE [result |-> DB_LOCK_LOST, status |-> status, history |-> history]

\* Steps 11 and 12: build the two maps and commit.
BCommit(w) ==
    /\ wk[w].pc = "commit"
    /\ LET res == update_conversation_after_reply(
                      conversation_status, message_history,
                      user_message_map(wk[w].items),
                      assistant_message_map(wk[w].twilio_response), "reply_sent")
       IN
       \/ /\ NoFault
          /\ res.result = DB_SUCCESS
          /\ conversation_status' = res.status
          /\ message_history' = res.history
          /\ lock_owner' = 0
          /\ enq_since_commit' = 0
          /\ committed_sids' = committed_sids \cup SidsOf(wk[w].items)
          /\ deferred' = deferred \ SidsOf(wk[w].items)
          /\ wk' = [wk EXCEPT ![w].pc = "cleanup_staging", ![w].update_status = DB_SUCCESS]
          /\ UNCHANGED lock_lost_sids
       \/ /\ NoFault
          /\ res.result = DB_LOCK_LOST
          /\ conversation_status' = res.status
          /\ message_history' = res.history
          /\ UNCHANGED lock_owner
          /\ lock_lost_sids' = lock_lost_sids \cup SidsOf(wk[w].items)
          /\ wk' = [wk EXCEPT ![w].pc = "finally", ![w].update_status = DB_LOCK_LOST]
          /\ UNCHANGED << enq_since_commit, committed_sids, deferred >>
       \/ \* DB_ERROR
          /\ CanFault /\ Fault
          /\ wk' = [wk EXCEPT ![w].pc = "finally", ![w].update_status = DB_ERROR]
          /\ UNCHANGED << conv_vars, enq_since_commit, lock_lost_sids,
                          committed_sids, deferred >>
    /\ UNCHANGED << stage_table, trigger_lock, queue, req, provider_sends >>
    /\ UNCHANGED obj_vars

\* Faulty variant: the staging rows of the batch are left in place.
cleanup_deletes_nothing(tbl, keys) == tbl

\* Faulty variant: the cleanup deletes every staging row of the conversation.
cleanup_deletes_every_row(tbl, keys) == [s \in Sids |-> NoRow]

\* dynamodb_service.cleanup_staging_table: batch delete of the given keys.
cleanup_staging_table(tbl, keys) ==
    [s \in Sids |-> IF s \in keys THEN NoRow ELSE tbl[s]]

\* Faulty variant: a failed staging cleanup puts the record in
\* batchItemFailures.
BCleanupStagingFailsRecord(w) ==
    /\ wk[w].pc = "cleanup_staging"
    /\ \/ /\ NoFault
          /\ stage_table' = cleanup_staging_table(stage_table, SidsOf(wk[w].items))
          /\ wk' = [wk EXCEPT ![w].pc = "cleanup_lock"]
       \/ /\ CanFault /\ Fault
          /\ UNCHANGED stage_table
          /\ wk' = [wk EXCEPT ![w].pc = "finally", ![w].failed = TRUE]
    /\ UNCHANGED << conv_vars, trigger_lock, queue, req, log_vars >>
    /\ UNCHANGED obj_vars

\* Step 13, first call.
BCleanupStaging(w) ==
    /\ wk[w].pc = "cleanup_staging"
    /\ \/ /\ NoFault
          /\ stage_table' = cleanup_staging_table(stage_table, SidsOf(wk[w].items))
       \/ /\ CanFault /\ Fault
          /\ UNCHANGED stage_table
    /\ wk' = [wk EXCEPT ![w].pc = "cleanup_lock"]
    /\ UNCHANGED << conv_vars, trigger_lock, queue, req, log_vars >>
    /\ UNCHANGED obj_vars

\* Step 13, second call: dynamodb_service.cleanup_trigger_lock.
BCleanupTriggerLock(w) ==
    /\ wk[w].pc = "cleanup_lock"
    /\ \/ /\ NoFault
          /\ trigger_lock' = FALSE
       \/ /\ CanFault /\ Fault
          /\ UNCHANGED trigger_lock
    /\ wk' = [wk EXCEPT ![w].pc = "finally"]
    /\ UNCHANGED << conv_vars, stage_table, queue, req, log_vars >>
    /\ UNCHANGED obj_vars

\* Faulty variant: the release leaves the status as it is.
release_keeps_status(status) == status

\* dynamodb_service.release_lock_for_retry: unconditional SET
\* conversation_status = retry.
release_lock_for_retry(status) == "retry"

\* Faulty variant: the lock is released only for a failure of the processing
\* itself, not for a heartbeat error.
BFinallyWithoutHeartbeatRelease(w) ==
    /\ wk[w].pc = "finally"
    /\ \E hbex \in BOOLEAN, released \in BOOLEAN :
         LET failed  == wk[w].failed \/ hbex
             attempt == wk[w].lock_status = LOCK_ACQUIRED /\ wk[w].failed
             cost    == (IF wk[w].hb = "running" /\ hbex THEN 1 ELSE 0)
                        + (IF attempt /\ ~released THEN 1 ELSE 0)
         IN
         /\ wk[w].hb \in {"none", "exited"} => ~hbex
         /\ wk[w].hb = "failed" => hbex
         /\ released => attempt
         /\ budget >= cost
         /\ budget' = budget - cost
         /\ conversation_status' =
               IF released THEN "retry" ELSE conversation_status
         /\ lock_owner' = IF released THEN 0 ELSE lock_owner
         /\ IF failed
            THEN queue' = FailMessage(queue, wk[w].msg, wk[w].receipt)
            ELSE queue' \in AckOutcomes(queue, wk[w].msg, wk[w].receipt)
    /\ wk' = [wk EXCEPT ![w] = IdleWorker]
    /\ UNCHANGED << message_history, stage_table, trigger_lock, req, log_vars >>
    /\ UNCHANGED obj_vars

\* The finally block of one record, and the handler's response for it.
\*   hbex      heartbeat.running was True and check_for_errors() returned an
\*             error (an extension that fails while stop() joins the thread
\*             is an environment event)
\*   failed    the record is in batchItemFailures
\*   released  release_lock_for_retry was called and its update succeeded
BFinally(w) ==
    /\ wk[w].pc = "finally"
    /\ \E hbex \in BOOLEAN, released \in BOOLEAN :
         LET failed  == wk[w].failed \/ hbex
             attempt == wk[w].lock_status = LOCK_ACQUIRED /\ failed
             cost    == (IF wk[w].hb = "running" /\ hbex THEN 1 ELSE 0)
                        + (IF attempt /\ ~released THEN 1 ELSE 0)
         IN
         /\ wk[w].hb \in {"none", "exited"} => ~hbex
         /\ wk[w].hb = "failed" => hbex
         /\ released => attempt
         /\ budget >= cost
         /\ budget' = budget - cost
         /\ conversation_status' =
               IF released THEN release_lock_for_retry(conversation_status)
               ELSE conversation_status
         /\ lock_owner' = IF released THEN 0 ELSE lock_owner
         /\ IF failed
            THEN queue' = FailMessage(queue, wk[w].msg, wk[w].receipt)
            ELSE queue' \in AckOutcomes(queue, wk[w].msg, wk[w].receipt)
    /\ wk' = [wk EXCEPT ![w] = IdleWorker]
    /\ UNCHANGED << message_history, stage_table, trigger_lock, req, log_vars >>
    /\ UNCHANGED obj_vars

\* SQSHeartbeat._run: change_message_visibility raises; the error is stored
\* and the stop event set.
HeartbeatFail(w) ==
    /\ wk[w].hb = "running"
    /\ CanFault /\ Fault
    /\ wk' = [wk EXCEPT ![w].hb = "failed"]
    /\ UNCHANGED << conv_vars, stage_table, trigger_lock, queue, req, log_vars >>
    /\ UNCHANGED obj_vars

\* SQSHeartbeat._run: after the loop, _running = False and the thread ends.
HeartbeatExit(w) ==
    /\ wk[w].hb = "failed"
    /\ wk' = [wk EXCEPT ![w].hb = "exited"]
    /\ UNCHANGED << conv_vars, stage_table, trigger_lock, queue, budget, req, log_vars >>
    /\ UNCHANGED obj_vars

\* ======================================================================
\* Environment
\* ======================================================================

\* DynamoDB TTL removes the trigger-lock row (expires_at passed).
TTLExpireTriggerLock ==
    /\ trigger_lock
    /\ CanFault /\ Fault
    /\ trigger_lock' = FALSE
    /\ UNCHANGED << conv_vars, stage_table, queue, req, wk, log_vars >>
    /\ UNCHANGED obj_vars

\* DynamoDB TTL removes a staging row.
TTLExpireStaging(sid) ==
    /\ stage_table[sid] # NoRow
    /\ CanFault /\ Fault
    /\ stage_table' = [stage_table EXCEPT ![sid] = NoRow]
    /\ UNCHANGED << conv_vars, trigger_lock, queue, req, wk, log_vars >>
    /\ UNCHANGED obj_vars

Next ==
    \/ \E r \in Reqs : AValidate(r)
    \/ \E r \in Reqs : AStage(r)
    \/ \E r \in Reqs : ATriggerLock(r)
    \/ \E r \in Reqs : ASend(r)
    \/ \E r \in Reqs : AReturn(r)
    \/ \E w \in Workers, m \in MsgIds : BReceive(w, m)
    \/ \E w \in Workers : BQuery(w)
    \/ \E w \in Workers : BProcess(w)
    \/ \E w \in Workers : BCommit(w)
    \/ \E w \in Workers : BCleanupStaging(w)
    \/ \E w \in Workers : BCleanupTriggerLock(w)
    \/ \E w \in Workers : BFinally(w)
    \/ \E w \in Workers : HeartbeatFail(w)
    \/ \E w \in Workers : HeartbeatExit(w)
    \/ \E m \in MsgIds : VisibilityTimeout(m)
    \/ TTLExpireTriggerLock
    \/ \E sid \in Sids : TTLExpireStaging(sid)

Spec == Init /\ [][Next]_vars

\* ----------------------------------------------------------------------
\* Stage B on its own: Stage A has returned, its fragments are staged, the
\* trigger lock is held and one trigger is waiting in the queue.  With no
\* webhook left to interleave, one more environment event is affordable.
\* ----------------------------------------------------------------------

StagedRows == {NoRow} \cup { [received_at |-> t] : t \in Times }

InitB ==
    /\ conversation_status = "template_sent"
    /\ message_history = << >>
    /\ lock_owner = 0
    /\ stage_table \in [Sids -> StagedRows]
    /\ committed_sids = {}
    /\ \E first \in Sids :
         /\ stage_table[first] # NoRow
         /\ deferred = { s \in Sids : stage_table[s] # NoRow } \ {first}
    /\ trigger_lock = TRUE
    /\ queue = << [state |-> "visible", receives |-> 0] >>
    /\ budget = MaxFaults + 1
    /\ req = [r \in Reqs |-> [IdleReq EXCEPT !.pc = "returned"]]
    /\ wk = [w \in Workers |-> IdleWorker]
    /\ provider_sends = [s \in Sids |-> 0]
    /\ enq_since_commit = 1
    /\ lock_lost_sids = {}
    /\ ObjIdle

NextB ==
    \/ \E w \in Workers, m \in MsgIds : BReceive(w, m)
    \/ \E w \in Workers : BQuery(w)
    \/ \E w \in Workers : BProcess(w)
    \/ \E w \in Workers : BCommit(w)
    \/ \E w \in Workers : BCleanupStaging(w)
    \/ \E w \in Workers : BCleanupTriggerLock(w)
    \/ \E w \in Workers : BFinally(w)
    \/ \E w \in Workers : HeartbeatFail(w)
    \/ \E w \in Workers : HeartbeatExit(w)
    \/ \E m \in MsgIds : VisibilityTimeout(m)
    \/ TTLExpireTriggerLock
    \/ \E sid \in Sids : TTLExpireStaging(sid)

SpecB == InitB /\ [][NextB]_vars

\* ----------------------------------------------------------------------
\* The error mapping of Stage A on its own: every invocation is about to
\* call _determine_final_error_response with some channel type and some
\* error code.
\* ----------------------------------------------------------------------

\* Channel types the handler derives from the request path or the context.
ChannelTypes == {"whatsapp", "sms", "email", "unknown"}

\* Error codes the handler and its services pass to the mapping.
ErrorCodes ==
    TRANSIENT_ERROR_CODES \cup
    { "PARSING_ERROR", "NOT_FOUND", "DB_CONFIG_ERROR", "DB_QUERY_ERROR",
      "DB_GET_ITEM_ERROR", "SECRET_FETCH_FAILED", "INVALID_SIGNATURE",
      "INTERNAL_ERROR", "PROJECT_INACTIVE", "CHANNEL_NOT_ALLOWED",
      "CONVERSATION_LOCKED", "VALIDATION_FAILED", "ROUTING_ERROR",
      "STAGE_WRITE_ERROR", "TRIGGER_LOCK_WRITE_ERROR", "SQS_SEND_ERROR" }

InitErr ==
    /\ conversation_status = "template_sent"
    /\ message_history = << >>
    /\ lock_owner = 0
    /\ stage_table = [s \in Sids |-> NoRow]
    /\ trigger_lock = FALSE
    /\ queue = << >>
    /\ budget = MaxFaults
    /\ req \in [Reqs -> { [IdleReq EXCEPT !.pc = "error", !.channel_type = ch,
                                          !.code = code] :
                            ch \in ChannelTypes, code \in ErrorCodes }]
    /\ wk = [w \in Workers |-> IdleWorker]
    /\ provider_sends = [s \in Sids |-> 0]
    /\ enq_since_commit = 0
    /\ lock_lost_sids = {}
    /\ committed_sids = {}
    /\ deferred = {}
    /\ ObjIdle

\* return _determine_final_error_response(channel_type, error_code, message)
AErrorResponse(r) ==
    /\ req[r].pc = "error"
    /\ ReqDone(r, req[r].code, {})
    /\ UNCHANGED << conv_vars, stage_table, trigger_lock, queue, budget, wk, log_vars >>
    /\ UNCHANGED obj_vars

NextErr ==
    \/ \E r \in Reqs : AErrorResponse(r)
    \/ \E r \in Reqs : AReturn(r)

SpecErr == InitErr /\ [][NextErr]_vars

\* ----------------------------------------------------------------------
\* The failure-free run of one webhook: no collaborator fails, no lease or
\* TTL runs out, and a single fragment is accepted: every other webhook is
\* rejected by the signature check or by the conversation rules.  Lambda
\* runs every started invocation to its end and SQS delivers every visible
\* message, hence the weak fairness.
\* ----------------------------------------------------------------------

FirstReq == 1

InitHappy ==
    /\ conversation_status = "template_sent"
    /\ message_history = << >>
    /\ lock_owner = 0
    /\ stage_table = [s \in Sids |-> NoRow]
    /\ trigger_lock = FALSE
    /\ queue = << >>
    /\ budget = 0
    /\ req = [r \in Reqs |-> IdleReq]
    /\ wk = [w \in Workers |-> IdleWorker]
    /\ provider_sends = [s \in Sids |-> 0]
    /\ enq_since_commit = 0
    /\ lock_lost_sids = {}
    /\ committed_sids = {}
    /\ deferred = {}
    /\ ObjIdle

NextHappy ==
    \/ \E r \in Reqs : AValidate(r) /\ (r # FirstReq => req'[r].pc = "done")
    \/ AStage(FirstReq)
    \/ ATriggerLock(FirstReq)
    \/ ASend(FirstReq)
    \/ \E r \in Reqs : AReturn(r)
    \/ \E w \in Workers, m \in MsgIds : BReceive(w, m)
    \/ \E w \in Workers : BQuery(w)
    \/ \E w \in Workers : BProcess(w)
    \/ \E w \in Workers : BCommit(w)
    \/ \E w \in Workers : BCleanupStaging(w)
    \/ \E w \in Workers : BCleanupTriggerLock(w)
    \/ \E w \in Workers : BFinally(w)

SpecHappy == InitHappy /\ [][NextHappy]_vars /\ WF_vars(NextHappy)

\* ----------------------------------------------------------------------
\* Stage B from the waiting trigger on, with the scheduling of the
\* platform: SQS delivers every visible message and Lambda runs every
\* started invocation to its end.  Nothing obliges a collaborator to fail,
\* a lease to run out or a row to expire.
\* ----------------------------------------------------------------------

StepsB ==
    \/ \E w \in Workers, m \in MsgIds : BReceive(w, m)
    \/ \E w \in Workers : BQuery(w)
    \/ \E w \in Workers : BProcess(w)
    \/ \E w \in Workers : BCommit(w)
    \/ \E w \in Workers : BCleanupStaging(w)
    \/ \E w \in Workers : BCleanupTriggerLock(w)
    \/ \E w \in Workers : BFinally(w)

SpecRetry == InitB /\ [][NextB]_vars /\ WF_vars(StepsB)

\* ----------------------------------------------------------------------
\* The staging step of Stage A on its own: the staging table holds any rows
\* of earlier fragments, and two webhooks (new fragments or provider retries
\* of staged ones) have passed validation and are about to stage.
\* ----------------------------------------------------------------------

StagingReq(sid) ==
    [IdleReq EXCEPT !.pc = "stage", !.sid = sid, !.sig = "valid",
                    !.channel_type = "whatsapp", !.route = "WHATSAPP_QUEUE",
                    !.effects = {"fetch", "rules", "route"}]

InitStage ==
    /\ conversation_status = "template_sent"
    /\ message_history = << >>
    /\ lock_owner = 0
    /\ stage_table \in [Sids -> StagedRows]
    /\ committed_sids = {}
    /\ LET staged == { s \in Sids : stage_table[s] # NoRow } IN
       /\ trigger_lock = (staged # {})
       /\ queue = IF staged # {} THEN << [state |-> "visible", receives |-> 0] >>
                  ELSE << >>
       /\ enq_since_commit = IF staged # {} THEN 1 ELSE 0
       /\ \/ staged = {} /\ deferred = {}
          \/ \E first \in staged : deferred = staged \ {first}
    /\ budget = MaxFaults
    /\ req \in [Reqs -> { StagingReq(sid) : sid \in Sids }]
    /\ wk = [w \in Workers |-> IdleWorker]
    /\ provider_sends = [s \in Sids |-> 0]
    /\ lock_lost_sids = {}
    /\ ObjIdle

NextStage ==
    \/ \E r \in Reqs : AStage(r)
    \/ \E r \in Reqs : ATriggerLock(r)
    \/ \E r \in Reqs : ASend(r)
    \/ \E r \in Reqs : AReturn(r)

SpecStage == InitStage /\ [][NextStage]_vars

\* ----------------------------------------------------------------------
\* The merge of Stage B on its own: a worker holds the lock and the staging
\* query has handed it the staged rows in some order.
\* ----------------------------------------------------------------------

\* Every order in which a list of rows can be handed over.
PermsOf(s) == { [i \in 1..Len(s) |-> s[f[i]]] : f \in Permutations(1..Len(s)) }

InitMerge ==
    /\ conversation_status = PROCESSING_STATUS
    /\ message_history = << >>
    /\ lock_owner = 1
    /\ stage_table \in [Sids -> StagedRows]
    /\ committed_sids = {}
    /\ \E first \in Sids :
         /\ stage_table[first] # NoRow
         /\ deferred = { s \in Sids : stage_table[s] # NoRow } \ {first}
    /\ trigger_lock = TRUE
    /\ queue = << [state |-> "inflight", receives |-> 1] >>
    /\ budget = MaxFaults
    /\ req = [r \in Reqs |-> [IdleReq EXCEPT !.pc = "returned"]]
    /\ \E items \in PermsOf(query_staging_table(stage_table)) :
         wk = [w \in Workers |->
                 IF w = 1
                 THEN [IdleWorker EXCEPT !.pc = "process", !.msg = 1, !.receipt = 1,
                                         !.lock_status = LOCK_ACQUIRED,
                                         !.hb = "running", !.items = items]
                 ELSE IdleWorker]
    /\ provider_sends = [s \in Sids |-> 0]
    /\ enq_since_commit = 1
    /\ lock_lost_sids = {}
    /\ ObjIdle

SpecMerge == InitMerge /\ [][NextB]_vars

\* ----------------------------------------------------------------------
\* Stage A from the hydrated context on: one webhook of any channel has
\* passed the signature check and has merged a conversation row with any
\* project, channel and routing attributes; a batch of the conversation may
\* already be open.
\* ----------------------------------------------------------------------

\* Attributes of the conversation row as get_full_conversation returns them;
\* "none" stands for a missing attribute.
DbData ==
    [project_status : {"active", "inactive", "none"},
     allowed_channels : {{}, {"whatsapp"}, ChannelTypes},
     auto_queue_reply_message : BOOLEAN,
     auto_queue_reply_message_from_number : {{}, {"+1"}},
     recipient_tel : {"none", "+1", "+2"},
     auto_queue_reply_message_from_email : {{}, {"a@x"}},
     recipient_email : {"none", "a@x", "b@x"}]

InitRoute ==
    /\ conversation_status \in {"none", "template_sent", PROCESSING_STATUS}
    /\ message_history = << >>
    /\ lock_owner = 0
    /\ \E open \in BOOLEAN :
         /\ stage_table = [s \in Sids |-> IF open /\ s = 1
                                           THEN [received_at |-> 0] ELSE NoRow]
         /\ trigger_lock = open
         /\ queue = IF open THEN << [state |-> "visible", receives |-> 0] >>
                    ELSE << >>
         /\ enq_since_commit = IF open THEN 1 ELSE 0
    /\ budget = MaxFaults
    /\ \E sid \in Sids, ch \in ChannelTypes, d \in DbData :
         req = [r \in Reqs |->
                  IF r = FirstReq
                  THEN [IdleReq EXCEPT !.pc = "hydrated", !.sid = sid,
                                       !.sig = "valid", !.channel_type = ch,
                                       !.db_data = d, !.effects = {"fetch"}]
                  ELSE [IdleReq EXCEPT !.pc = "returned"]]
    /\ wk = [w \in Workers |-> IdleWorker]
    /\ provider_sends = [s \in Sids |-> 0]
    /\ lock_lost_sids = {}
    /\ committed_sids = {}
    /\ deferred = {}
    /\ ObjIdle

\* Rule validation and routing of the hydrated context.
AHydrated(r) ==
    /\ req[r].pc = "hydrated"
    /\ req' = [req EXCEPT ![r] = RulesAndRoute(req[r])]
    /\ UNCHANGED << conv_vars, stage_table, trigger_lock, queue, budget, wk, log_vars >>
    /\ UNCHANGED obj_vars

NextRoute ==
    \/ \E r \in Reqs : AHydrated(r)
    \/ \E r \in Reqs : AStage(r)
    \/ \E r \in Reqs : ATriggerLock(r)
    \/ \E r \in Reqs : ASend(r)
    \/ \E r \in Reqs : AReturn(r)

SpecRoute == InitRoute /\ [][NextRoute]_vars

\* ----------------------------------------------------------------------
\* utils/sqs_heartbeat.py: one SQSHeartbeat object, its background threads
\* and a handler thread that calls start() and stop() in any order and
\* finally runs the finally block of the record.
\* ----------------------------------------------------------------------

main_vars == << conversation_status, message_history, stage_table, trigger_lock,
                queue, budget, req, wk, provider_sends, enq_since_commit,
                lock_lost_sids, committed_sids, deferred, lock_owner >>

hb_rest == << main_vars, batch, run, webhook >>

Alive(h, t) == t # 0 /\ h.threads[t] \notin {"unborn", "dead"}

\* The property running: the flag and the liveness of the referenced thread.
running(h) == h._running /\ Alive(h, h._thread)

InitHeartbeat ==
    /\ conversation_status = PROCESSING_STATUS
    /\ message_history = << >>
    /\ lock_owner = 1
    /\ stage_table = [s \in Sids |-> NoRow]
    /\ trigger_lock = FALSE
    /\ queue = << [state |-> "inflight", receives |-> 1] >>
    /\ budget = MaxFaults
    /\ req = [r \in Reqs |-> [IdleReq EXCEPT !.pc = "returned"]]
    /\ wk = [w \in Workers |-> IdleWorker]
    /\ provider_sends = [s \in Sids |-> 0]
    /\ enq_since_commit = 0
    /\ lock_lost_sids = {}
    /\ committed_sids = {}
    /\ deferred = {}
    /\ ObjIdle

\* The thread object start() would create.
NewThread(h) ==
    CHOOSE u \in ThreadIds :
        h.threads[u] = "unborn" /\ \A v \in ThreadIds : h.threads[v] = "unborn" => u <= v

\* Faulty variant: start() does not look at the running flag.
start_unguarded(h) ==
    IF \E t \in ThreadIds : h.threads[t] = "unborn"
    THEN [h EXCEPT !._stop_event = FALSE, !._error = 0, !._thread = NewThread(h),
                   !.threads[NewThread(h)] = "waiting", !._running = TRUE,
                   !.caller = "ready"]
    ELSE [h EXCEPT !.caller = "ready"]

\* SQSHeartbeat.start, under the lock: nothing when the flag says running or
\* the referenced thread is alive; otherwise clear the stop event and the
\* error, create and start a thread, set the flag.
start(h) ==
    IF h._running \/ Alive(h, h._thread)
    THEN [h EXCEPT !.caller = "ready"]
    ELSE [h EXCEPT !._stop_event = FALSE, !._error = 0, !._thread = NewThread(h),
                   !.threads[NewThread(h)] = "waiting", !._running = TRUE,
                   !.caller = "ready"]

\* The handler thread calls start() or stop().
HbCall(op) ==
    /\ heartbeat.caller = "ready"
    /\ op = "starting" => \E t \in ThreadIds : heartbeat.threads[t] = "unborn"
    /\ heartbeat' = [heartbeat EXCEPT !.caller = op, !.after = "ready"]
    /\ UNCHANGED hb_rest

HbStart ==
    /\ heartbeat.caller = "starting"
    /\ heartbeat' = start(heartbeat)
    /\ UNCHANGED hb_rest

\* SQSHeartbeat.stop up to the join: nothing without a thread reference or
\* with the stop event already set; otherwise set the event and join.
stop(h) ==
    IF h._thread = 0 \/ h._stop_event
    THEN [h EXCEPT !.caller = h.after]
    ELSE [h EXCEPT !._stop_event = TRUE, !.caller = "joining"]

HbStop ==
    /\ heartbeat.caller = "stopping"
    /\ heartbeat' = stop(heartbeat)
    /\ UNCHANGED hb_rest

\* The join of stop() returns: the thread has ended, or the timeout ran out
\* while the thread was inside change_message_visibility; the reference is
\* dropped either way.
HbJoin ==
    /\ heartbeat.caller = "joining"
    /\ heartbeat.threads[heartbeat._thread] \in {"dead", "calling"}
    /\ heartbeat' = [heartbeat EXCEPT !._thread = 0, !.caller = heartbeat.after]
    /\ UNCHANGED hb_rest

\* The finally block of the record (index.py): stop() when the heartbeat is
\* running; the handling of the record has ended when it is through.
HbFinally ==
    /\ heartbeat.caller = "ready"
    /\ heartbeat' = IF running(heartbeat)
                    THEN [heartbeat EXCEPT !.caller = "stopping", !.after = "ended"]
                    ELSE [heartbeat EXCEPT !.caller = "ended"]
    /\ UNCHANGED hb_rest

\* _run: wait(interval_sec) times out with the stop event not set, and the
\* thread issues one change_message_visibility.
HbWaitElapsed(t) ==
    /\ heartbeat.threads[t] = "waiting"
    /\ ~heartbeat._stop_event
    /\ heartbeat.extensions < MaxExtensions
    /\ heartbeat' = [heartbeat EXCEPT !.threads[t] = "calling",
                                      !.extensions = @ + 1]
    /\ UNCHANGED hb_rest

\* _run: wait() returns True, the loop ends.
HbWaitStopped(t) ==
    /\ heartbeat.threads[t] = "waiting"
    /\ heartbeat._stop_event
    /\ heartbeat' = [heartbeat EXCEPT !.threads[t] = "exiting"]
    /\ UNCHANGED hb_rest

\* _run: the extension succeeded, back to the wait.
HbExtendOk(t) ==
    /\ heartbeat.threads[t] = "calling"
    /\ heartbeat' = [heartbeat EXCEPT !.threads[t] = "waiting"]
    /\ UNCHANGED hb_rest

\* Faulty variant: the loop goes on after a failed extension and stores the
\* latest error.
HbExtendFailKeepsLooping(t) ==
    /\ heartbeat.threads[t] = "calling"
    /\ heartbeat' = [heartbeat EXCEPT !.threads[t] = "waiting",
                                      !._error = heartbeat.extensions]
    /\ UNCHANGED hb_rest

\* _run: the extension raised; the error is stored if it is the first one.
\* Errors are numbered by the call that raised them.
HbExtendFail(t) ==
    /\ heartbeat.threads[t] = "calling"
    /\ heartbeat' = [heartbeat EXCEPT
                        !.threads[t] = "recorded",
                        !._error = IF heartbeat._error = 0
                                   THEN heartbeat.extensions ELSE @]
    /\ UNCHANGED hb_rest

\* _run: _stop_event.set() and break.
HbBreak(t) ==
    /\ heartbeat.threads[t] = "recorded"
    /\ heartbeat' = [heartbeat EXCEPT !.threads[t] = "exiting",
                                      !._stop_event = TRUE]
    /\ UNCHANGED hb_rest

\* _run: after the loop, _running = False, and the thread ends.
HbThreadExit(t) ==
    /\ heartbeat.threads[t] = "exiting"
    /\ heartbeat' = [heartbeat EXCEPT !.threads[t] = "dead", !._running = FALSE]
    /\ UNCHANGED hb_rest

NextHeartbeat ==
    \/ \E op \in {"starting", "stopping"} : HbCall(op)
    \/ HbStart
    \/ HbStop
    \/ HbJoin
    \/ HbFinally
    \/ \E t \in ThreadIds : HbWaitElapsed(t)
    \/ \E t \in ThreadIds : HbWaitStopped(t)
    \/ \E t \in ThreadIds : HbExtendOk(t)
    \/ \E t \in ThreadIds : HbExtendFail(t)
    \/ \E t \in ThreadIds : HbBreak(t)
    \/ \E t \in ThreadIds : HbThreadExit(t)

SpecHeartbeat == InitHeartbeat /\ [][NextHeartbeat]_vars

\* ----------------------------------------------------------------------
\* The Stage B handler over a batch of records (index.py, handler).  Each
\* record is a trigger for a conversation of its own; message_id is the
\* position of the record in the batch.
\* ----------------------------------------------------------------------

\* The main system at rest, for the specifications of single objects.
MainIdle ==
    /\ conversation_status = "template_sent"
    /\ message_history = << >>
    /\ lock_owner = 0
    /\ stage_table = [s \in Sids |-> NoRow]
    /\ trigger_lock = FALSE
    /\ queue = << >>
    /\ budget = 0
    /\ req = [r \in Reqs |-> [IdleReq EXCEPT !.pc = "returned"]]
    /\ wk = [w \in Workers |-> IdleWorker]
    /\ provider_sends = [s \in Sids |-> 0]
    /\ enq_since_commit = 0
    /\ lock_lost_sids = {}
    /\ committed_sids = {}
    /\ deferred = {}

batch_rest == << main_vars, heartbeat, run, webhook >>

\* A record: what its body holds, the status of the conversation it names,
\* and what the staging table holds for that conversation: nothing,
\* fragments whose primary_channel is the trigger's, or fragments whose
\* primary_channel differs.
BatchRecords ==
    { r \in [body : {"valid", "empty", "not_json", "no_conversation_id",
                     "no_primary_channel"},
             status : {"template_sent", PROCESSING_STATUS},
             staged : {"none", "match", "mismatch"}] :
        /\ r.body # "valid" => r.status = "template_sent"
        /\ (r.body # "valid" \/ r.status = PROCESSING_STATUS) => r.staged = "none" }

InitBatch ==
    /\ MainIdle
    /\ heartbeat = NewHeartbeat /\ run = NoRun /\ webhook = NoWebhook
    /\ \E n \in 1..MaxRecords : \E recs \in [1..n -> BatchRecords] :
         batch = [Records |-> recs, message_id |-> 0, pc |-> "next",
                  batch_item_failures |-> << >>,
                  lock_status |-> "None", heartbeat |-> FALSE,
                  status |-> [k \in 1..n |-> recs[k].status],
                  effects |-> [k \in 1..n |-> {}],
                  outcome |-> [k \in 1..n |-> "none"],
                  heartbeat_exception |-> [k \in 1..n |-> FALSE],
                  release_success |-> [k \in 1..n |-> TRUE],
                  response |-> << >>]

\* The record being handled fails at pc: its id is appended to
\* batch_item_failures and the handler continues with the finally block.
BatchFail(b, why) ==
    [b EXCEPT !.batch_item_failures = Append(@, b.message_id),
              !.outcome[b.message_id] = why, !.pc = "finally"]

\* Top of the loop: the next record, with the locals of the record reset; the
\* response is returned after the last one.
BatchNextRecord ==
    /\ batch.pc = "next"
    /\ batch' = IF batch.message_id < Len(batch.Records)
                THEN [batch EXCEPT !.message_id = @ + 1, !.lock_status = "None",
                                   !.heartbeat = FALSE, !.pc = "parse"]
                ELSE [batch EXCEPT !.response = batch.batch_item_failures,
                                   !.pc = "returned"]
    /\ UNCHANGED batch_rest

\* Step 1: an empty body, a body that is not JSON, or one without
\* conversation_id or primary_channel fails the record.
BatchParse ==
    /\ batch.pc = "parse"
    /\ batch' = IF batch.Records[batch.message_id].body # "valid"
                THEN BatchFail(batch, "parse_error")
                ELSE [batch EXCEPT !.pc = "acquire"]
    /\ UNCHANGED batch_rest

\* Step 2 and 3a: acquire the processing lock of the record's conversation;
\* LOCK_EXISTS skips the record, DB_ERROR fails it; with the lock the
\* heartbeat is started, which may not succeed.
BatchAcquire ==
    /\ batch.pc = "acquire"
    /\ \E db_error \in BOOLEAN, started \in BOOLEAN :
         LET k == batch.message_id
             r == acquire_processing_lock(batch.status[k])
         IN batch' =
              IF db_error
              THEN [BatchFail(batch, "lock_db_error") EXCEPT !.lock_status = DB_ERROR]
              ELSE IF r.result = LOCK_EXISTS
              THEN [batch EXCEPT !.lock_status = LOCK_EXISTS,
                                 !.outcome[k] = "lock_exists", !.pc = "finally"]
              ELSE [batch EXCEPT !.lock_status = LOCK_ACQUIRED,
                                 !.status[k] = r.status,
                                 !.effects[k] = @ \cup {"lock"},
                                 !.heartbeat = started, !.pc = "query"]
    /\ UNCHANGED batch_rest

\* Steps 3 and 4: a failed query fails the record; an empty batch ends it
\* without a failure.
BatchQuery ==
    /\ batch.pc = "query"
    /\ \E db_error \in BOOLEAN :
         batch' = IF db_error THEN BatchFail(batch, "query_error")
                  ELSE IF batch.Records[batch.message_id].staged = "none"
                  THEN [batch EXCEPT !.outcome[batch.message_id] = "empty",
                                     !.pc = "finally"]
                  ELSE [batch EXCEPT !.pc = "check"]
    /\ UNCHANGED batch_rest

\* Faulty variant: the primary_channel of the first fragment is not compared
\* with the trigger's.
BatchCheckIgnoringMismatch ==
    /\ batch.pc = "check"
    /\ batch' = [batch EXCEPT !.pc = "process"]
    /\ UNCHANGED batch_rest

\* Step 5, consistency check: the primary_channel of the first staged
\* fragment must be the one of the trigger.
BatchCheck ==
    /\ batch.pc = "check"
    /\ batch' = IF batch.Records[batch.message_id].staged = "mismatch"
                THEN BatchFail(batch, "mismatch")
                ELSE [batch EXCEPT !.pc = "process"]
    /\ UNCHANGED batch_rest

\* Steps 6 to 13 in one: they succeed, with the AI call, the provider send
\* and the final update of the row; or one of them fails the record after
\* some of the calls were made; or one raises and the except clause fails
\* the record.
BatchProcess ==
    /\ batch.pc = "process"
    /\ \E result \in {"ok", "failed", "raised"},
          done \in {{}, {"ai"}, {"ai", "send"}} :
         LET k == batch.message_id
         IN batch' =
              IF result = "ok"
              THEN [batch EXCEPT !.effects[k] = @ \cup {"ai", "send"},
                                 !.status[k] = "reply_sent",
                                 !.outcome[k] = "ok", !.pc = "finally"]
              ELSE [BatchFail(batch, result) EXCEPT !.effects[k] = @ \cup done]
    /\ UNCHANGED batch_rest

\* Faulty variant: a heartbeat error appends the id without looking whether
\* the list holds it already.
BatchFinallyAlwaysAppends ==
    /\ batch.pc = "finally"
    /\ \E hb_error \in {e \in BOOLEAN : e => batch.heartbeat},
          release_ok \in BOOLEAN :
         LET k == batch.message_id
             failures == IF hb_error
                         THEN Append(batch.batch_item_failures, k)
                         ELSE batch.batch_item_failures
             processing_failed == \E j \in 1..Len(failures) : failures[j] = k
             release == batch.lock_status = LOCK_ACQUIRED /\ processing_failed
         IN batch' = [batch EXCEPT
                 !.batch_item_failures = failures,
                 !.heartbeat_exception[k] = hb_error,
                 !.effects[k] = IF release THEN @ \cup {"release"} ELSE @,
                 !.release_success[k] = release => release_ok,
                 !.status[k] = IF release /\ release_ok
                               THEN release_lock_for_retry(@) ELSE @,
                 !.pc = "next"]
    /\ UNCHANGED batch_rest

\* The finally block of the record: a running heartbeat is stopped and an
\* error it recorded fails the record unless it is in the list already; a
\* lock that was acquired by a record now in the list is released with
\* release_lock_for_retry, whose update may fail.
BatchFinally ==
    /\ batch.pc = "finally"
    /\ \E hb_error \in {e \in BOOLEAN : e => batch.heartbeat},
          release_ok \in BOOLEAN :
         LET k == batch.message_id
             listed(f) == \E j \in 1..Len(f) : f[j] = k
             failures == IF hb_error /\ ~listed(batch.batch_item_failures)
                         THEN Append(batch.batch_item_failures, k)
                         ELSE batch.batch_item_failures
             processing_failed == listed(failures)
             release == batch.lock_status = LOCK_ACQUIRED /\ processing_failed
         IN batch' = [batch EXCEPT
                 !.batch_item_failures = failures,
                 !.heartbeat_exception[k] = hb_error,
                 !.effects[k] = IF release THEN @ \cup {"release"} ELSE @,
                 !.release_success[k] = release => release_ok,
                 !.status[k] = IF release /\ release_ok
                               THEN release_lock_for_retry(@) ELSE @,
                 !.pc = "next"]
    /\ UNCHANGED batch_rest

NextBatch ==
    \/ BatchNextRecord
    \/ BatchParse
    \/ BatchAcquire
    \/ BatchQuery
    \/ BatchCheck
    \/ BatchProcess
    \/ BatchFinally

SpecBatch == InitBatch /\ [][NextBatch]_vars

\* ----------------------------------------------------------------------
\* process_reply_with_ai from the creation of the run on (openai_service.py):
\* the polling loop and the retrieval of the reply.  Time is in seconds.
\* ----------------------------------------------------------------------

AI_SUCCESS == "SUCCESS"
AI_TRANSIENT_ERROR == "TRANSIENT_ERROR"
AI_NON_TRANSIENT_ERROR == "NON_TRANSIENT_ERROR"

polling_timeout_seconds == 540
polling_interval_seconds == 1

\* Values of run.status the API can return.
RunStatuses ==
    {"queued", "in_progress", "cancelling", "incomplete", "completed",
     "failed", "cancelled", "expired", "requires_action"}

\* Exceptions an API call can raise, one of each except clause.
ApiExceptions ==
    {"RateLimitError", "APIConnectionError", "AuthenticationError", "APIError",
     "Exception"}

\* The except clauses of process_reply_with_ai.
ExceptionResult(e) ==
    IF e \in {"RateLimitError", "APIConnectionError"}
    THEN AI_TRANSIENT_ERROR ELSE AI_NON_TRANSIENT_ERROR

run_rest == << main_vars, heartbeat, batch, webhook >>

\* The run has been created and start_time taken; no status retrieved yet.
InitRun ==
    /\ MainIdle
    /\ heartbeat = NewHeartbeat /\ batch = NoBatch /\ webhook = NoWebhook
    /\ run = [pc |-> "loop", start_time |-> 0, now |-> 0, elapsed_time |-> 0,
              status |-> "none", cancel_attempted |-> FALSE, via |-> "none",
              result |-> "none"]

RunReturn(r, code, how) == [r EXCEPT !.pc = "returned", !.result = code, !.via = how]

\* Top of the loop: elapsed_time is taken and compared with the timeout.
RunLoopHead ==
    /\ run.pc = "loop"
    /\ LET elapsed_time == run.now - run.start_time
       IN run' = [run EXCEPT !.elapsed_time = elapsed_time,
                             !.pc = IF elapsed_time > polling_timeout_seconds
                                    THEN "cancel" ELSE "retrieve"]
    /\ UNCHANGED run_rest

\* Timeout: the run is cancelled, an exception of the cancel is swallowed,
\* and the timeout is returned as transient.
RunCancel ==
    /\ run.pc = "cancel"
    /\ run' = [RunReturn(run, AI_TRANSIENT_ERROR, "timeout") EXCEPT
                  !.cancel_attempted = TRUE]
    /\ UNCHANGED run_rest

\* runs.retrieve and the branches on run.status; the call takes time and
\* may raise.
RunRetrieve ==
    /\ run.pc = "retrieve"
    /\ \E d \in 0..MaxCallSeconds :
         LET r == [run EXCEPT !.now = @ + d]
         IN \/ \E status \in RunStatuses :
                 run' = IF status = "completed"
                        THEN [r EXCEPT !.status = status, !.pc = "messages"]
                        ELSE IF status \in {"failed", "cancelled", "expired"}
                        THEN RunReturn([r EXCEPT !.status = status],
                                       AI_NON_TRANSIENT_ERROR, "status")
                        ELSE IF status = "requires_action"
                        THEN RunReturn([r EXCEPT !.status = status],
                                       AI_NON_TRANSIENT_ERROR, "status")
                        ELSE [r EXCEPT !.status = status, !.pc = "sleep"]
            \/ \E e \in ApiExceptions :
                 run' = RunReturn(r, ExceptionResult(e), "exception")
    /\ UNCHANGED run_rest

\* Faulty variant: the pause between two polls takes no time.
RunSleepWithoutPause ==
    /\ run.pc = "sleep"
    /\ run' = [run EXCEPT !.pc = "loop"]
    /\ UNCHANGED run_rest

\* time.sleep(polling_interval_seconds)
RunSleep ==
    /\ run.pc = "sleep"
    /\ run' = [run EXCEPT !.now = @ + polling_interval_seconds, !.pc = "loop"]
    /\ UNCHANGED run_rest

\* Steps 4 to 6 after the loop: the reply of the run is read from the
\* thread; no message or no text is non-transient, a raised exception is
\* mapped by its class.
RunMessages ==
    /\ run.pc = "messages"
    /\ \/ \E found \in BOOLEAN :
            run' = RunReturn(run, IF found THEN AI_SUCCESS
                                  ELSE AI_NON_TRANSIENT_ERROR,
                             IF found THEN "reply" ELSE "no_reply")
       \/ \E e \in ApiExceptions :
            run' = RunReturn(run, ExceptionResult(e), "exception")
    /\ UNCHANGED run_rest

NextRun ==
    \/ RunLoopHead
    \/ RunCancel
    \/ RunRetrieve
    \/ RunSleep
    \/ RunMessages

\* The handler thread runs the function without interruption and every API
\* call returns or raises.
SpecRun == InitRun /\ [][NextRun]_vars /\ WF_vars(NextRun)

\* ----------------------------------------------------------------------
\* The identifiers of one telephony webhook, from the index lookup of Stage A
\* to the lock acquisition of Stage B.  An identifier is the sequence of its
\* parts: "whatsapp:+1" is << "whatsapp:", "+1" >>, the empty sequence is a
\* missing or empty value.
\* ----------------------------------------------------------------------

TelephonyChannels == {"whatsapp", "sms"}
ChannelPrefix(channel_type) == IF channel_type = "whatsapp" THEN "whatsapp:" ELSE "sms:"

\* str.startswith and the slice that removes the prefix.
startswith(id, prefix) == Len(id) > 0 /\ Head(id) = prefix
after_prefix(id) == Tail(id)

\* Values of From and To a webhook can carry.
UserIdentifiers ==
    {<< >>} \cup { << n >> : n \in {"+1", "+2", "whatsapp:"} }
            \cup { << p, n >> : p \in {"whatsapp:", "sms:"}, n \in {"+1", "+2"} }
CompanyIdentifiers == { << "+9" >>, << "whatsapp:", "+9" >>, << "sms:", "+9" >> }

\* Rows of the conversations table: the key (primary_channel,
\* conversation_id) and the attributes the telephony indexes are built on.
ConversationRows ==
    [primary_channel : { << "+1" >>, << "+2" >>, << "whatsapp:", "+1" >> },
     conversation_id : {"c1", "c2"},
     gsi_company : { << "+9" >> },
     gsi_recipient_tel : { << "+1" >>, << "+2" >>, << "whatsapp:", "+1" >> }]

\* get_credential_ref_for_validation: the value an index key is queried
\* with.
gsi_key_value(channel_type, id) ==
    IF channel_type \in TelephonyChannels /\ id # << >>
          /\ startswith(id, ChannelPrefix(channel_type))
    THEN after_prefix(id) ELSE id

\* handler of Stage A, step 5: the partition key of the GetItem.
primary_channel_key(channel_type, from_id) ==
    IF channel_type \in TelephonyChannels /\ from_id # << >>
          /\ startswith(from_id, ChannelPrefix(channel_type))
    THEN after_prefix(from_id) ELSE from_id

\* Faulty variant: the trigger carries the sender as received.
trigger_primary_channel_as_received(channel_type, from_id) == from_id

\* send_message_to_queue: primary_channel of the trigger message, the full
\* value when the prefix is not found, nothing without a sender.
trigger_primary_channel(channel_type, from_id) ==
    IF channel_type \in TelephonyChannels /\ from_id # << >>
    THEN IF startswith(from_id, ChannelPrefix(channel_type))
         THEN after_prefix(from_id) ELSE from_id
    ELSE << >>

NoItem == [primary_channel |-> << >>, conversation_id |-> "none"]

webhook_rest == << main_vars, heartbeat, batch, run >>

InitWebhook ==
    /\ MainIdle
    /\ heartbeat = NewHeartbeat /\ batch = NoBatch /\ run = NoRun
    /\ \E channel_type \in TelephonyChannels, from \in UserIdentifiers,
          to \in CompanyIdentifiers, table \in SUBSET ConversationRows :
         /\ Cardinality(table) \in 1..MaxRows
         /\ \A a, b \in table :
               (a.primary_channel = b.primary_channel
                  /\ a.conversation_id = b.conversation_id) => a = b
         /\ webhook = [pc |-> "lookup", channel_type |-> channel_type,
                       from |-> from, to |-> to, table |-> table,
                       gsi_pk_value |-> << >>, gsi_sk_value |-> << >>,
                       conversation_id |-> "none",
                       primary_channel_key |-> << >>,
                       db_data |-> NoItem, stage_item |-> NoItem,
                       message_body |-> NoItem, lock_row |-> NoItem]

\* Steps 2 and 3 of the Stage A handler: sender and recipient must be there;
\* the index is queried with the stripped values and the first item gives
\* the conversation_id.
WebhookLookup ==
    /\ webhook.pc = "lookup"
    /\ LET pk == gsi_key_value(webhook.channel_type, webhook.to)
           sk == gsi_key_value(webhook.channel_type, webhook.from)
           items == { r \in webhook.table :
                        r.gsi_company = pk /\ r.gsi_recipient_tel = sk }
       IN IF webhook.from = << >> \/ items = {}
          THEN webhook' = [webhook EXCEPT !.pc = "rejected",
                                          !.gsi_pk_value = pk, !.gsi_sk_value = sk]
          ELSE \E item \in items :
                 webhook' = [webhook EXCEPT
                                !.pc = "fetch",
                                !.gsi_pk_value = pk, !.gsi_sk_value = sk,
                                !.conversation_id = item.conversation_id]
    /\ UNCHANGED webhook_rest

\* Step 5: get_full_conversation with the stripped sender as partition key;
\* the row found is merged into the context and validated.
WebhookFetch ==
    /\ webhook.pc = "fetch"
    /\ LET key == primary_channel_key(webhook.channel_type, webhook.from)
           found == { r \in webhook.table :
                        /\ r.primary_channel = key
                        /\ r.conversation_id = webhook.conversation_id }
       IN IF key = << >> \/ found = {}
          THEN webhook' = [webhook EXCEPT !.pc = "rejected",
                                          !.primary_channel_key = key]
          ELSE \E item \in found :
                 webhook' = [webhook EXCEPT
                                !.pc = "stage", !.primary_channel_key = key,
                                !.db_data = [primary_channel |-> item.primary_channel,
                                             conversation_id |-> item.conversation_id]]
    /\ UNCHANGED webhook_rest

\* write_to_stage_table: the fragment carries conversation_id and
\* primary_channel of the merged context.
WebhookStage ==
    /\ webhook.pc = "stage"
    /\ webhook' = [webhook EXCEPT !.pc = "send", !.stage_item = webhook.db_data]
    /\ UNCHANGED webhook_rest

\* send_message_to_queue for a channel queue: the trigger carries
\* conversation_id and the primary_channel derived from the sender.
WebhookSend ==
    /\ webhook.pc = "send"
    /\ LET primary_channel ==
               trigger_primary_channel(webhook.channel_type, webhook.from)
       IN webhook' =
            IF primary_channel = << >>
            THEN [webhook EXCEPT !.pc = "rejected"]
            ELSE [webhook EXCEPT
                     !.pc = "queued",
                     !.message_body =
                         [primary_channel |-> primary_channel,
                          conversation_id |-> webhook.db_data.conversation_id]]
    /\ UNCHANGED webhook_rest

\* Stage B: acquire_processing_lock addresses the row whose key is
\* (primary_channel, conversation_id) of the trigger, if there is one.
WebhookAcquire ==
    /\ webhook.pc = "queued"
    /\ LET rows == { r \in webhook.table :
                       /\ r.primary_channel = webhook.message_body.primary_channel
                       /\ r.conversation_id = webhook.message_body.conversation_id }
       IN \/ rows = {} /\ webhook' = [webhook EXCEPT !.pc = "acquired"]
          \/ \E r \in rows :
               webhook' = [webhook EXCEPT
                              !.pc = "acquired",
                              !.lock_row = [primary_channel |-> r.primary_channel,
                                            conversation_id |-> r.conversation_id]]
    /\ UNCHANGED webhook_rest

NextWebhook ==
    \/ WebhookLookup
    \/ WebhookFetch
    \/ WebhookStage
    \/ WebhookSend
    \/ WebhookAcquire

SpecWebhook == InitWebhook /\ [][NextWebhook]_vars

\* ======================================================================
\* Properties
\* ======================================================================

\* Worker w is between its own successful acquire_processing_lock and its
\* own commit attempt or release.
InCS(w) == wk[w].lock_status = LOCK_ACQUIRED /\ wk[w].update_status = "NONE"

\* C1 (lock soundness): at most one Stage B worker at a time is between its
\* own successful acquire_processing_lock and its own commit or release.
C1_MutualExclusion ==
    \A v, w \in Workers : v # w => ~(InCS(v) /\ InCS(w))

\* The step in which worker w, its provider send done, runs the commit.
CommitStep(w) == wk[w].pc = "commit" /\ wk'[w].pc # "commit"

\* The history grows by a user turn followed by an assistant turn.
GrowsByTwoTurns ==
    /\ Len(message_history') = Len(message_history) + 2
    /\ SubSeq(message_history', 1, Len(message_history)) = message_history
    /\ message_history'[Len(message_history) + 1].role = "user"
    /\ message_history'[Len(message_history) + 2].role = "assistant"

\* C2 as stated (exactly-once append): a batch whose provider send
\* succeeded grows the history by exactly two entries at its commit, and the
\* history changes in no other step.
C2_AppendIffSent ==
    [][ /\ \A w \in Workers : CommitStep(w) => GrowsByTwoTurns
        /\ message_history' # message_history =>
              \E w \in Workers : CommitStep(w) ]_vars

\* C2 amended: the history grows by exactly two entries (user turn, then
\* assistant turn) if and only if the provider send succeeded and the commit
\* returned SUCCESS; in every other case it is unchanged.
C2_AppendIffSentAndCommitted ==
    [][ /\ \A w \in Workers :
              CommitStep(w) =>
                  IF wk'[w].update_status = DB_SUCCESS
                  THEN GrowsByTwoTurns
                  ELSE message_history' = message_history
        /\ message_history' # message_history =>
              \E w \in Workers :
                  CommitStep(w) /\ wk'[w].update_status = DB_SUCCESS ]_vars

\* C2, reached: one batch was committed, and another worker's reply was
\* delivered but its commit came back with LOCK_LOST.
C2_SentButNotCommitted ==
    \E w \in Workers :
        /\ wk[w].twilio_response # 0
        /\ wk[w].update_status = DB_LOCK_LOST
        /\ Len(message_history) = 2

\* C3 (single trigger per window): since the last successful commit Stage A
\* has enqueued at most one trigger.
C3_SingleTriggerPerWindow == enq_since_commit <= 1

\* Nothing is running and nothing is scheduled: no webhook is in progress, no
\* worker is active and the queue holds no deliverable trigger.
Quiescent ==
    /\ \A r \in Reqs : req[r].pc \in {"idle", "returned"}
    /\ \A w \in Workers : wk[w].pc = "idle"
    /\ \A m \in MsgIds : queue[m].state \in {"deleted", "dlq"}

\* C4 (deferred fragment is picked up): once the scheduled run is over, and
\* no collaborator failed, every fragment that was staged under an existing
\* trigger lock has been committed in a user turn.
C4_DeferredFragmentMerged ==
    (Quiescent /\ budget = MaxFaults) => deferred = {}

\* (received_at, message_sid) of a precedes that of b.
Before(a, b) ==
    \/ a.received_at < b.received_at
    \/ a.received_at = b.received_at /\ a.message_sid < b.message_sid

ItemSet(items) == { items[i] : i \in 1..Len(items) }

PresentRows(tbl) ==
    { [message_sid |-> s, received_at |-> tbl[s].received_at] :
        s \in { x \in Sids : tbl[x] # NoRow } }

\* The arrangement of a set of rows in ascending (received_at, message_sid).
AscendingOrder(S) ==
    CHOOSE p \in [1..Cardinality(S) -> S] :
        \A i, j \in 1..Cardinality(S) : i < j => Before(p[i], p[j])

RECURSIVE NewlineJoined(_, _)
NewlineJoined(p, n) ==
    IF n = 1 THEN BodyOf(p[1].message_sid)
    ELSE NewlineJoined(p, n - 1) \o "\n" \o BodyOf(p[n].message_sid)

\* C5 (merge): the batch is every row present in staging when the worker
\* queries it, and the user turn it commits has as content the bodies joined
\* by a newline in ascending (received_at, message_sid) order and as
\* message_id the message_sid of the first fragment in that order.
C5_MergedUserTurn ==
    [][ \A w \in Workers :
          /\ (wk[w].pc = "query" /\ wk'[w].pc = "process") =>
                 ItemSet(wk'[w].items) = PresentRows(stage_table)
          /\ (CommitStep(w) /\ wk'[w].update_status = DB_SUCCESS) =>
                 LET S == ItemSet(wk[w].items)
                     p == AscendingOrder(S)
                 IN /\ Len(message_history') = Len(message_history) + 2
                    /\ message_history'[Len(message_history) + 1] =
                          [message_id |-> p[1].message_sid, role |-> "user",
                           content |-> NewlineJoined(p, Cardinality(S))] ]_vars

\* C5, reached: two fragments whose sid order is the reverse of their
\* arrival order were merged into one user turn.
C5_TwoFragmentsMerged ==
    \E i \in 1..Len(message_history) :
        message_history[i] =
            [message_id |-> 2, role |-> "user", content |-> "there,\nHello"]

\* C6 (signature gating): an invocation whose signature is missing or does
\* not verify ends at once with no conversation fetch, rule validation,
\* routing, staging write, trigger-lock write or queue send, and its step
\* leaves every table and the queue as they were.
C6_SignatureGate ==
    [][ \A r \in Reqs :
          req'[r].sig \in {"invalid", "missing"} =>
              /\ req'[r].pc = "done"
              /\ req'[r].effects = {}
              /\ req'[r] # req[r] =>
                    UNCHANGED << conv_vars, stage_table, trigger_lock, queue >> ]_vars

\* C6, reached: a request with a wrong signature was turned away.
C6_InvalidSignatureRejected ==
    \E r \in Reqs :
        req[r].sig = "invalid" /\ req[r].code = "INVALID_SIGNATURE"

\* C7 (stage before lock): the trigger lock is attempted only after the
\* staging write has succeeded; when the write fails the invocation ends
\* without a trigger-lock write and without a queue send.
C7_StageBeforeTriggerLock ==
    [][ \A r \in Reqs :
          /\ (req'[r].pc = "lock" /\ req[r].pc # "lock") =>
                 /\ req[r].pc = "stage"
                 /\ stage_table'[req[r].sid] # NoRow
                 /\ budget' = budget
          /\ (req[r].pc = "stage" /\ req'[r].pc # "stage" /\ budget' # budget) =>
                 /\ req'[r].pc = "done"
                 /\ req'[r].effects \cap {"stage", "trigger_lock", "send"} = {}
                 /\ UNCHANGED << stage_table, trigger_lock, queue >>
          /\ req'[r].effects \cap {"trigger_lock", "send"} # {} =>
                 "stage" \in req'[r].effects ]_vars

\* C7, reached: a staging write failed and the invocation ended with the
\* trigger lock free and the queue empty.
C7_StageWriteFailed ==
    \E r \in Reqs :
        /\ req[r].pc = "done"
        /\ req[r].code \in {"STAGE_DB_TRANSIENT_ERROR", "STAGE_WRITE_ERROR"}
        /\ ~trigger_lock
        /\ queue = << >>

C9_NoResendAfterLockLost ==
    [][ \A s \in lock_lost_sids : provider_sends'[s] = provider_sends[s] ]_vars

\* C10 (no retry after a sent reply): when the commit after a successful
\* provider send returns LOCK_LOST or fails, the worker skips the cleanup,
\* the record is acknowledged and release_lock_for_retry is not called.
C10_AckAfterFailedCommit ==
    [][ \A w \in Workers :
          /\ (CommitStep(w) /\ wk'[w].update_status \in {DB_LOCK_LOST, DB_ERROR}) =>
                 wk'[w].pc = "finally" /\ UNCHANGED << stage_table, trigger_lock >>
          /\ (wk[w].pc = "finally" /\ wk'[w].pc = "idle"
                 /\ wk[w].update_status \in {DB_LOCK_LOST, DB_ERROR}) =>
                 /\ queue' \in AckOutcomes(queue, wk[w].msg, wk[w].receipt)
                 /\ UNCHANGED << conversation_status, stage_table, trigger_lock >> ]_vars

\* The step in which worker w runs the finally block of its record.
FinallyStep(w) == wk[w].pc = "finally" /\ wk'[w].pc = "idle"

\* The record of worker w is reported in batchItemFailures.
ReportedFailed(w) == queue' = FailMessage(queue, wk[w].msg, wk[w].receipt)

\* A failure between the lock acquisition and the commit ends the processing
\* of the record at once, with the record marked as failed.
PreCommitFailureStops(w) ==
    (wk[w].pc \in {"query", "process"} /\ wk'[w].pc # wk[w].pc
        /\ budget' < budget) =>
        wk'[w].pc = "finally" /\ wk'[w].failed

\* C11 as stated (release on pre-commit failure): after any failure between
\* the lock acquisition and the commit the record is reported in
\* batchItemFailures and conversation_status is 'retry' when the handler
\* moves on.
C11_FailureSetsRetry ==
    [][ \A w \in Workers :
          /\ PreCommitFailureStops(w)
          /\ (FinallyStep(w) /\ wk[w].failed) =>
                 ReportedFailed(w) /\ conversation_status' = "retry" ]_vars

\* C11 amended: after any such failure the record is reported in
\* batchItemFailures and release_lock_for_retry is called; the status is
\* 'retry' when the handler moves on unless that update itself failed, in
\* which case the status is left as it was.
C11_FailureReleasesLock ==
    [][ \A w \in Workers :
          /\ PreCommitFailureStops(w)
          /\ (FinallyStep(w) /\ wk[w].failed) =>
                 /\ ReportedFailed(w)
                 /\ \/ conversation_status' = "retry"
                    \/ budget' < budget /\ UNCHANGED conversation_status ]_vars

\* C11, reached: a failed attempt has released the lock and its trigger is
\* visible again for redelivery.
C11_ReleasedForRetry ==
    /\ conversation_status = "retry"
    /\ message_history = << >>
    /\ \A w \in Workers : wk[w].pc = "idle"
    /\ \E m \in MsgIds : queue[m].state = "visible" /\ queue[m].receives = 1

\* C12 (empty batch): when the lock was acquired and the staging query
\* returned no rows, the handler leaves the record with conversation_status
\* set to 'retry', so that the lock is released.
C12_EmptyBatchReleases ==
    [][ \A w \in Workers :
          (FinallyStep(w) /\ wk[w].lock_status = LOCK_ACQUIRED
              /\ wk[w].items = << >> /\ ~wk[w].failed) =>
              conversation_status' = "retry" ]_vars

\* C13 (heartbeat error is always reported): when a heartbeat extension
\* failed while the record was handled, the record is reported in
\* batchItemFailures, whatever the main outcome and whether or not the
\* heartbeat thread is still alive when the finally block runs.
C13_HeartbeatErrorReported ==
    [][ \A w \in Workers :
          (FinallyStep(w) /\ wk[w].hb \in {"failed", "exited"}) =>
              ReportedFailed(w) ]_vars

\* The step in which a worker receives message m from the trigger queue.
ReceiveStep(m) ==
    queue[m].state = "visible" /\ queue'[m].receives = queue[m].receives + 1

\* Nothing but the queue (and the fault budget) changes: no heartbeat, no
\* staging query, no assistant call, no send, no commit, no cleanup and no
\* release of the lock.
NothingElseDone ==
    UNCHANGED << conv_vars, stage_table, trigger_lock, req, wk, log_vars >>

\* C14 (record not processed without the lock): when the lock acquisition
\* reports EXISTS the record is acknowledged and nothing else is done for it;
\* when it reports a database error the record is reported as a batch
\* failure, nothing else is done and the lock is not released.
C14_NoLockNoProcessing ==
    [][ \A m \in MsgIds : ReceiveStep(m) =>
          /\ (conversation_status = PROCESSING_STATUS /\ budget' = budget) =>
                 queue'[m].state = "deleted" /\ NothingElseDone
          /\ budget' < budget =>
                 queue'[m].state \in {"visible", "dlq"} /\ NothingElseDone ]_vars

\* C14, reached: a redelivered trigger was skipped and deleted while the
\* worker of its first delivery still holds the lock.
C14_SkippedWhileLocked ==
    \E w \in Workers :
        /\ InCS(w)
        /\ conversation_status = PROCESSING_STATUS
        /\ budget = MaxFaults - 1
        /\ \A v \in Workers \ {w} : wk[v].pc = "idle"
        /\ queue[wk[w].msg].state = "deleted"
        /\ queue[wk[w].msg].receives = wk[w].receipt + 1

\* The step in which the webhook of invocation r arrives and is validated.
ArrivalStep(r) == req[r].pc = "idle" /\ req'[r].pc # "idle"

\* C15 (fragment rejected while a reply is in progress): a fragment that
\* arrives while conversation_status is 'processing_reply' is answered with
\* the 'please wait' TwiML and HTTP 200, and its invocation writes no
\* staging row, no trigger lock and no queue message.
C15_LockedFragmentRejected ==
    [][ \A r \in Reqs :
          /\ (ArrivalStep(r) /\ signature_ok(req'[r].sig) /\ budget' = budget
                 /\ conversation_status = PROCESSING_STATUS) =>
                 /\ req'[r].pc = "done"
                 /\ req'[r].response = [kind |-> "TWIML_WAIT", statusCode |-> 200]
                 /\ req'[r].effects \cap {"stage", "trigger_lock", "send"} = {}
                 /\ UNCHANGED << stage_table, trigger_lock, queue >>
          /\ (req[r].pc = "done" /\ req'[r] # req[r]) =>
                 /\ req'[r].pc = "returned"
                 /\ UNCHANGED << stage_table, trigger_lock, queue >> ]_vars

\* C15, reached: a fragment was rejected with CONVERSATION_LOCKED while a
\* worker holds the lock, and it has no staging row.
C15_RejectedWhileProcessing ==
    \E r \in Reqs :
        /\ req[r].pc = "done" /\ req[r].code = "CONVERSATION_LOCKED"
        /\ req[r].response.kind = "TWIML_WAIT"
        /\ conversation_status = PROCESSING_STATUS
        /\ stage_table[req[r].sid] = NoRow

\* C16 (error mapping): for the whatsapp and sms channels the mapping raises
\* exactly when the code is in the transient set, returns the 'please wait'
\* TwiML with HTTP 200 for CONVERSATION_LOCKED and the empty TwiML with HTTP
\* 200 for every other code, INVALID_SIGNATURE included; for every other
\* channel it returns a JSON error response.
C16_ErrorMapping ==
    \A r \in Reqs :
        (req[r].pc = "done" /\ req[r].code \in ErrorCodes) =>
            LET code == req[r].code
                resp == req[r].response
            IN
            IF req[r].channel_type \in {"whatsapp", "sms"}
            THEN /\ resp.kind = "RAISE" <=> code \in TRANSIENT_ERROR_CODES
                 /\ code = "CONVERSATION_LOCKED" =>
                        resp = [kind |-> "TWIML_WAIT", statusCode |-> 200]
                 /\ code \notin TRANSIENT_ERROR_CODES \cup {"CONVERSATION_LOCKED"} =>
                        resp = [kind |-> "TWIML_EMPTY", statusCode |-> 200]
            ELSE resp.kind = "JSON_ERROR"

\* C16, reached: a locked conversation on sms was answered with the wait
\* TwiML, and an invalid signature on email with a JSON error.
C16_MappedBothWays ==
    \E r, q \in Reqs :
        /\ req[r].pc = "done" /\ req[r].channel_type = "sms"
        /\ req[r].code = "CONVERSATION_LOCKED" /\ req[r].response.kind = "TWIML_WAIT"
        /\ req[q].pc = "done" /\ req[q].channel_type = "email"
        /\ req[q].code = "INVALID_SIGNATURE" /\ req[q].response.kind = "JSON_ERROR"

\* C17 (a trigger lock has a trigger): whenever the trigger-lock row exists
\* and no invocation is between its lock acquisition and its enqueue, a
\* trigger message is pending in the queue or is being processed by a
\* worker; also after a failed enqueue and after an attempt that did not
\* commit.
C17_TriggerLockHasTrigger ==
    (trigger_lock /\ \A r \in Reqs : req[r].pc # "send") =>
        \/ \E m \in MsgIds : queue[m].state \in {"visible", "inflight"}
        \/ \E w \in Workers : wk[w].pc # "idle"

\* The state the failure-free run of one batch ends in.
BatchDone ==
    /\ Len(message_history) = 2
    /\ message_history[1].role = "user" /\ message_history[2].role = "assistant"
    /\ \A s \in Sids : stage_table[s] = NoRow
    /\ ~trigger_lock
    /\ conversation_status = "reply_sent"

AIFailedOnce ==
    /\ budget = MaxFaults
    /\ \E w \in Workers : wk[w].pc = "finally" /\ wk[w].failure = "AI_TRANSIENT"

\* C19 (retry after a transient assistant error): when the assistant call of
\* an attempt fails with a transient error, the record is reported as failed
\* and the lock is released with status 'retry'; the queue then redelivers
\* the trigger and, unless something else fails, a later attempt reaches the
\* final state of the failure-free run.
C19_RetryAfterAITransient ==
    /\ [][ \A w \in Workers :
             (FinallyStep(w) /\ wk[w].failure = "AI_TRANSIENT" /\ budget' = budget) =>
                 ReportedFailed(w) /\ conversation_status' = "retry" ]_vars
    /\ AIFailedOnce ~> (BatchDone \/ budget < MaxFaults)

\* C19, reached: the trigger was delivered twice, one attempt failed and the
\* other completed the batch.
C19_SecondAttemptCompleted ==
    /\ BatchDone
    /\ budget = MaxFaults
    /\ \A w \in Workers : wk[w].pc = "idle"
    /\ \E m \in MsgIds : queue[m].state = "deleted" /\ queue[m].receives = 2

\* The provider send of the attempt of worker w returned a non-transient error.
SendRejected(w) == wk[w].failure = "TWILIO_NON_TRANSIENT"

\* From the send error to the end of the record nothing is committed and
\* nothing is cleaned up.
NoCommitNoCleanup(w) ==
    /\ (wk[w].pc = "process" /\ wk'[w].failure = "TWILIO_NON_TRANSIENT") =>
          /\ wk'[w].pc = "finally"
          /\ UNCHANGED << conv_vars, stage_table, trigger_lock, provider_sends >>
    /\ (SendRejected(w) /\ wk'[w].pc # wk[w].pc) =>
          /\ wk'[w].pc = "idle"
          /\ UNCHANGED << message_history, stage_table, trigger_lock >>

\* The record goes back to the queue, or to the dead-letter queue once it
\* has been received maxReceiveCount times.
FailedOrDeadLettered(w) ==
    LET m == wk[w].msg IN
    (queue[m].state = "inflight" /\ queue[m].receives = wk[w].receipt) =>
        queue'[m].state = IF queue[m].receives >= MaxReceive THEN "dlq" ELSE "visible"

\* C20 as stated (non-transient provider error): after a non-transient error
\* of the provider send no commit and no cleanup are performed, the history
\* is not appended, the status ends as 'retry' and the record is reported as
\* failed, so that it is dead-lettered at its last permitted delivery.
C20_SendErrorEndsInRetry ==
    [][ \A w \in Workers :
          /\ NoCommitNoCleanup(w)
          /\ (FinallyStep(w) /\ SendRejected(w)) =>
                 /\ FailedOrDeadLettered(w)
                 /\ conversation_status' = "retry" ]_vars

\* C20 amended: as above, except that the status ends as 'retry' only if
\* the release update succeeds; when that update fails the status is left
\* as it was.
C20_SendErrorFailsRecord ==
    [][ \A w \in Workers :
          /\ NoCommitNoCleanup(w)
          /\ (FinallyStep(w) /\ SendRejected(w)) =>
                 /\ FailedOrDeadLettered(w)
                 /\ \/ conversation_status' = "retry"
                    \/ budget' < budget /\ UNCHANGED conversation_status ]_vars

\* C20, reached: the send was rejected on the last permitted delivery of the
\* trigger, with nothing committed and the staged rows still in place.
C20_RejectedOnLastDelivery ==
    \E w \in Workers :
        /\ wk[w].pc = "finally" /\ SendRejected(w)
        /\ queue[wk[w].msg].state = "inflight"
        /\ queue[wk[w].msg].receives = MaxReceive
        /\ message_history = << >>
        /\ \A s \in SidsOf(wk[w].items) : stage_table[s] # NoRow

\* The message_sids of a staging table in the order Stage B merges them.
MergeOrder(tbl) ==
    LET s == SortItems(query_staging_table(tbl)) IN
    [i \in 1..Len(s) |-> s[i].message_sid]

\* The step in which invocation r writes its fragment to the staging table.
StageStep(r) == req[r].pc = "stage" /\ req'[r].pc = "lock"

\* C21 (staging is idempotent per message_sid): staging a fragment that is
\* already staged creates no second row and leaves the fragment's place in
\* the merge order as it was.
C21_RestagingKeepsOrder ==
    [][ \A r \in Reqs :
          (StageStep(r) /\ stage_table[req[r].sid] # NoRow) =>
              /\ Len(query_staging_table(stage_table'))
                    = Len(query_staging_table(stage_table))
              /\ MergeOrder(stage_table') = MergeOrder(stage_table) ]_vars

\* C22 (merge is order-independent): the combined_body and first_message_sid
\* that Stage B computes and commits for a batch are the same for every
\* order in which the staged rows of the batch are handed to the merge.
C22_MergeOrderIndependent ==
    [][ \A w \in Workers :
          (CommitStep(w) /\ wk'[w].update_status = DB_SUCCESS) =>
              \A p \in PermsOf(wk[w].items) :
                  /\ combined_body(p) = message_history'[Len(message_history) + 1].content
                  /\ first_message_sid(p)
                        = message_history'[Len(message_history) + 1].message_id ]_vars

\* C22, reached: a batch of two fragments that the query handed over in
\* descending message_sid order, with equal received_at, was committed.
C22_ReversedBatchCommitted ==
    \E w \in Workers :
        /\ wk[w].update_status = DB_SUCCESS
        /\ Len(wk[w].items) = 2
        /\ wk[w].items[1].message_sid > wk[w].items[2].message_sid
        /\ wk[w].items[1].received_at = wk[w].items[2].received_at
        /\ Len(message_history) = 2

\* The conversation row asks for a handoff of the message of invocation r.
HandoffAsked(r) ==
    LET d == req[r].db_data IN
    \/ d.auto_queue_reply_message
    \/ /\ req[r].channel_type \in {"whatsapp", "sms"}
       /\ d.recipient_tel \in d.auto_queue_reply_message_from_number
    \/ /\ req[r].channel_type = "email"
       /\ d.recipient_email \in d.auto_queue_reply_message_from_email

\* The batch queue of a channel, "NONE" for an unknown channel.
BatchQueueOf(ch) ==
    IF ch = "whatsapp" THEN "WHATSAPP_QUEUE"
    ELSE IF ch = "sms" THEN "SMS_QUEUE"
    ELSE IF ch = "email" THEN "EMAIL_QUEUE"
    ELSE "NONE"

\* C23 (routing): determine_target_queue returns the handoff queue when
\* auto_queue_reply_message is true or the channel's auto-queue list
\* contains the recipient identifier; otherwise the batch queue of the
\* message's channel, and no queue (a routing error) for an unknown channel.
C23_RoutingRule ==
    \A r \in Reqs :
        /\ (req[r].route # "NONE" \/ req[r].code = "ROUTING_ERROR") =>
              req[r].route = IF HandoffAsked(r) THEN "HANDOFF_QUEUE"
                             ELSE BatchQueueOf(req[r].channel_type)
        /\ (req[r].pc \in {"stage", "lock", "send"}) => req[r].route # "NONE"

\* C23, reached: an sms message was routed to the handoff queue because its
\* recipient is in the auto-queue list, the global flag being off.
C23_HandoffByList ==
    \E r \in Reqs :
        /\ req[r].pc = "stage" /\ req[r].channel_type = "sms"
        /\ ~req[r].db_data.auto_queue_reply_message
        /\ req[r].db_data.recipient_tel \in
               req[r].db_data.auto_queue_reply_message_from_number
        /\ req[r].route = "HANDOFF_QUEUE"

\* Codes of the three conversation rules.
RuleCodes == {"PROJECT_INACTIVE", "CHANNEL_NOT_ALLOWED", "CONVERSATION_LOCKED"}

\* C24 (rule order): validate_conversation_rules checks the project status,
\* then the channel, then the conversation lock, and the invocation reports
\* the code of the first rule that fails; with a missing conversation_status
\* the lock rule passes.
C24_FirstFailingRule ==
    \A r \in Reqs :
        "rules" \in req[r].effects =>
            LET d == req[r].db_data IN
            IF d.project_status # "active"
            THEN req[r].code = "PROJECT_INACTIVE"
            ELSE IF req[r].channel_type \notin d.allowed_channels
            THEN req[r].code = "CHANNEL_NOT_ALLOWED"
            ELSE IF conversation_status = PROCESSING_STATUS
            THEN req[r].code = "CONVERSATION_LOCKED"
            ELSE req[r].code \notin RuleCodes

\* C24, reached: a message of an inactive project, on a channel that is not
\* allowed, for a locked conversation was rejected with PROJECT_INACTIVE.
C24_ProjectRuleFirst ==
    \E r \in Reqs :
        /\ "rules" \in req[r].effects
        /\ req[r].db_data.project_status = "inactive"
        /\ req[r].channel_type \notin req[r].db_data.allowed_channels
        /\ conversation_status = PROCESSING_STATUS
        /\ req[r].code = "PROJECT_INACTIVE"

\* C25 (handoff and normal send): on the handoff route Stage A stages the
\* fragment, never attempts the trigger lock and enqueues the full context
\* with zero delay; on a channel route it enqueues only
\* {conversation_id, primary_channel} with delay BATCH_WINDOW_SECONDS, and
\* only after this invocation acquired the trigger lock.
C25_HandoffSkipsTriggerLock ==
    \A r \in Reqs :
        /\ req[r].route = "HANDOFF_QUEUE" =>
              /\ req[r].pc # "lock"
              /\ "trigger_lock" \notin req[r].effects
              /\ req[r].code \notin {"EXISTS", "TRIGGER_DB_TRANSIENT_ERROR",
                                     "TRIGGER_LOCK_WRITE_ERROR"}
              /\ req[r].pc = "send" => "stage" \in req[r].effects
        /\ req[r].sent # NoMessage =>
              /\ req[r].sent.queue = req[r].route
              /\ "stage" \in req[r].effects
              /\ IF req[r].route = "HANDOFF_QUEUE"
                 THEN /\ req[r].sent.body = "full_context"
                      /\ req[r].sent.delay = 0
                 ELSE /\ req[r].sent.body = "conversation_id,primary_channel"
                      /\ req[r].sent.delay = BATCH_WINDOW_SECONDS
                      /\ "trigger_lock" \in req[r].effects
                      /\ trigger_lock

\* C25, reached: a handoff message was enqueued with its fragment staged
\* while no trigger lock exists.
C25_HandoffSent ==
    \E r \in Reqs :
        /\ req[r].sent.queue = "HANDOFF_QUEUE"
        /\ stage_table[req[r].sid] # NoRow
        /\ ~trigger_lock

\* C26 (append-only history): in every step of Stage A and Stage B the
\* message history is either unchanged or keeps all its entries in place and
\* gains a user turn immediately followed by an assistant turn.
C26_HistoryAppendOnly ==
    [][ message_history' # message_history => GrowsByTwoTurns ]_vars

\* C26, reached: a second batch was committed behind the turns of the first.
C26_SecondBatchAppended ==
    /\ Len(message_history) = 4
    /\ message_history[1].role = "user" /\ message_history[2].role = "assistant"
    /\ message_history[3].role = "user" /\ message_history[4].role = "assistant"
    /\ message_history[3].message_id # message_history[1].message_id

\* Worker v is the only worker between its own successful acquisition and
\* its own commit or release, and the row carries the lock.
SoleHolder(v) ==
    /\ InCS(v)
    /\ conversation_status = PROCESSING_STATUS
    /\ \A w \in Workers : w # v => ~InCS(w)

\* C27 (exclusive ownership): while a worker holds the processing lock, every
\* write to conversation_status is made by that worker or is the conditional
\* commit; no other worker's status write, the release to 'retry' included,
\* overwrites the lock.
C27_LockedRowWrittenByHolder ==
    [][ \A v \in Workers :
          (SoleHolder(v) /\ conversation_status' # conversation_status) =>
              \/ wk'[v].pc # wk[v].pc
              \/ \E w \in Workers : CommitStep(w) ]_vars

\* A step of worker w removes a staging row or the trigger lock.
WorkerDeletes(w) ==
    /\ wk'[w] # wk[w]
    /\ \/ \E s \in Sids : stage_table[s] # NoRow /\ stage_table'[s] = NoRow
       \/ trigger_lock /\ ~trigger_lock'

\* C28 (cleanup after commit only): a Stage B step deletes staging rows or the
\* trigger lock only when the worker's commit returned SUCCESS; a cleanup
\* step never marks the record as failed, and a committed record whose
\* heartbeat reported no error is not reported in batchItemFailures whatever
\* the cleanup did.
C28_CleanupOnlyAfterCommit ==
    [][ \A w \in Workers :
          /\ WorkerDeletes(w) =>
                /\ wk[w].update_status = DB_SUCCESS
                /\ wk[w].pc \in {"cleanup_staging", "cleanup_lock"}
          /\ (wk[w].pc \in {"cleanup_staging", "cleanup_lock"}
                 /\ wk'[w].pc # wk[w].pc) =>
                /\ wk'[w].failed = wk[w].failed
                /\ wk'[w].pc \in {"cleanup_lock", "finally"}
          /\ (FinallyStep(w) /\ wk[w].update_status = DB_SUCCESS
                 /\ wk[w].hb # "failed" /\ budget' = budget) =>
                queue' \in AckOutcomes(queue, wk[w].msg, wk[w].receipt) ]_vars

\* C28, reached: the staging cleanup of a committed batch failed, the
\* trigger lock was deleted, and the record reaches the finally block
\* unfailed.
C28_CleanupFailedRecordKept ==
    \E w \in Workers :
        /\ wk[w].pc = "finally" /\ wk[w].update_status = DB_SUCCESS
        /\ ~wk[w].failed /\ budget = 0
        /\ \E s \in SidsOf(wk[w].items) : stage_table[s] # NoRow
        /\ ~trigger_lock

\* C29 (no lock left behind): when a worker that acquired the processing
\* lock finishes its record, no failure occurring in the finally block and
\* no other worker holding a lock of its own, conversation_status is no
\* longer 'processing_reply'.
C29_NoLockLeftBehind ==
    [][ \A w \in Workers :
          (/\ FinallyStep(w)
           /\ wk[w].lock_status = LOCK_ACQUIRED
           /\ budget' = budget
           /\ \A v \in Workers : v # w => ~InCS(v)) =>
              conversation_status' # PROCESSING_STATUS ]_vars

\* C30 (only the current holder commits): a commit that returns SUCCESS is
\* issued by the worker whose acquisition of the processing lock is the most
\* recent one and has not been released or replaced since.
C30_CommitByLatestAcquirer ==
    [][ \A w \in Workers :
          (CommitStep(w) /\ wk'[w].update_status = DB_SUCCESS) =>
              lock_owner = w ]_vars

\* C31 (a fragment is used once): no staged fragment is part of more than one
\* successful provider send, and no successful commit contains a fragment that
\* an earlier commit already put in a user turn.
C31_FragmentUsedOnce ==
    [][ /\ \A s \in Sids : provider_sends'[s] <= 1
        /\ \A w \in Workers :
              (CommitStep(w) /\ wk'[w].update_status = DB_SUCCESS) =>
                  SidsOf(wk[w].items) \cap committed_sids = {} ]_vars

\* C32 (cleanup frame): the staging cleanup of a worker removes the rows of
\* the fragments the worker read and merged, all of them when the batch
\* delete succeeds, and leaves every other staging row as it is.
C32_CleanupDeletesBatchOnly ==
    [][ \A w \in Workers :
          (wk[w].pc = "cleanup_staging" /\ wk'[w].pc = "cleanup_lock") =>
              /\ \A s \in Sids \ SidsOf(wk[w].items) :
                     stage_table'[s] = stage_table[s]
              /\ budget' = budget =>
                     \A s \in SidsOf(wk[w].items) : stage_table'[s] = NoRow ]_vars

\* C32, reached: a worker's staging cleanup has removed its batch while a
\* fragment staged after its staging query is still in the table.
C32_LateFragmentKept ==
    \E w \in Workers :
        /\ wk[w].pc = "cleanup_lock" /\ budget = MaxFaults
        /\ \A s \in SidsOf(wk[w].items) : stage_table[s] = NoRow
        /\ \E s \in Sids \ SidsOf(wk[w].items) : stage_table[s] # NoRow

\* The finally block of worker w finds a heartbeat error: the thread had
\* stored one, or an extension fails while an unfailed record's heartbeat is
\* being stopped.
HeartbeatErrorSeen(w) ==
    /\ FinallyStep(w)
    /\ \/ wk[w].hb = "failed"
       \/ wk[w].hb = "running" /\ ~wk[w].failed /\ budget' < budget

\* The update of release_lock_for_retry failed in the finally block of w.
ReleaseUpdateFailed(w) ==
    budget' < budget - (IF wk[w].hb = "running" THEN 1 ELSE 0)

\* C33 as stated (heartbeat error releases): when the finally block finds a
\* heartbeat error, the record is reported in batchItemFailures and
\* conversation_status is 'retry' afterwards, also for a record whose commit
\* and cleanup succeeded.
C33_HeartbeatErrorSetsRetry ==
    [][ \A w \in Workers :
          (HeartbeatErrorSeen(w) /\ wk[w].lock_status = LOCK_ACQUIRED) =>
              ReportedFailed(w) /\ conversation_status' = "retry" ]_vars

\* C33 amended: when the finally block finds a heartbeat error, the record is
\* reported in batchItemFailures and release_lock_for_retry is called, also
\* for a record whose commit and cleanup succeeded; conversation_status is
\* 'retry' afterwards unless that update itself failed, in which case the
\* status is left as it was.
C33_HeartbeatErrorReleases ==
    [][ \A w \in Workers :
          (HeartbeatErrorSeen(w) /\ wk[w].lock_status = LOCK_ACQUIRED) =>
              /\ ReportedFailed(w)
              /\ \/ conversation_status' = "retry"
                 \/ ReleaseUpdateFailed(w) /\ UNCHANGED conversation_status ]_vars

\* C33, reached: the only delivery of the trigger committed its batch and
\* cleaned up, and after a heartbeat error the status is 'retry' and the
\* trigger is visible again.
C33_CommittedThenRetry ==
    /\ conversation_status = "retry"
    /\ Len(message_history) = 2
    /\ \A s \in Sids : stage_table[s] = NoRow
    /\ ~trigger_lock
    /\ \A w \in Workers : wk[w].pc = "idle"
    /\ Len(queue) = 1 /\ queue[1].state = "visible" /\ queue[1].receives = 1

InLoop(h, t) == h.threads[t] \in {"waiting", "calling"}

\* C35 (heartbeat loop): each time the wait of a heartbeat thread times out
\* with the stop event not set the thread issues exactly one extension, and
\* none when the event is set; a failing extension is recorded if no error is
\* recorded yet, after it the thread issues no further extension and leaves
\* with the running flag cleared; a recorded error is never replaced by
\* another error.
C35_HeartbeatLoop ==
    [][ /\ \A t \in ThreadIds :
              /\ (heartbeat.threads[t] = "waiting"
                    /\ heartbeat'.threads[t] # "waiting") =>
                     IF heartbeat._stop_event
                     THEN /\ heartbeat'.threads[t] = "exiting"
                          /\ heartbeat'.extensions = heartbeat.extensions
                     ELSE /\ heartbeat'.threads[t] = "calling"
                          /\ heartbeat'.extensions = heartbeat.extensions + 1
              /\ (heartbeat.threads[t] = "calling"
                    /\ ~InLoop(heartbeat', t)) =>
                     /\ heartbeat'._error # 0
                     /\ heartbeat._error = 0 =>
                            heartbeat'._error = heartbeat.extensions
              /\ (heartbeat.threads[t] \in {"recorded", "exiting", "dead"}) =>
                     /\ heartbeat'.threads[t] \in {"recorded", "exiting", "dead"}
                     /\ heartbeat'.threads[t] # heartbeat.threads[t] =>
                            heartbeat'.extensions = heartbeat.extensions
              /\ (heartbeat.threads[t] # "dead" /\ heartbeat'.threads[t] = "dead") =>
                     ~heartbeat'._running
        /\ heartbeat'.extensions # heartbeat.extensions =>
              \E t \in ThreadIds : heartbeat.threads[t] = "waiting"
                                    /\ heartbeat'.threads[t] = "calling"
        /\ (heartbeat._error # 0 /\ heartbeat'._error # heartbeat._error) =>
              heartbeat'._error = 0 /\ heartbeat.caller = "starting" ]_vars

\* C35, reached: the second extension of a thread failed and was recorded,
\* and the thread has ended with the running flag cleared.
C35_SecondExtensionFailed ==
    /\ heartbeat._error = 2
    /\ heartbeat.extensions = 2
    /\ heartbeat.threads[1] = "dead"
    /\ ~heartbeat._running

\* Number of background threads of the object that have not ended.
LiveThreads(h) == Cardinality({ t \in ThreadIds : Alive(h, t) })

\* The attributes of the object and its threads.
ObjectState(h) ==
    << h._stop_event, h._thread, h._error, h._running, h.threads, h.extensions >>

\* C36 (start and stop are idempotent, stop on every exit): a start() while
\* the object is running creates no thread, and the object never has two
\* live threads; a stop() without a started thread or after a stop changes
\* nothing; and once the finally block of the record is through no extension
\* is issued any more.
C36_StartStopIdempotent ==
    [][ /\ LiveThreads(heartbeat') <= 1
        /\ (heartbeat.caller = "starting" /\ heartbeat'.caller = "ready"
              /\ heartbeat._running) =>
                 ObjectState(heartbeat') = ObjectState(heartbeat)
        /\ (heartbeat.caller = "stopping" /\ heartbeat'.caller # "stopping"
              /\ heartbeat._thread = 0) =>
                 /\ ObjectState(heartbeat') = ObjectState(heartbeat)
                 /\ heartbeat'.caller = heartbeat.after
        /\ heartbeat.caller = "ended" =>
              /\ heartbeat'.extensions = heartbeat.extensions
              /\ heartbeat'.caller = "ended" ]_vars

\* C36, reached: the record has ended after a stop() whose join timed out,
\* and the thread is still inside its last extension.
C36_EndedWithThreadInCall ==
    /\ heartbeat.caller = "ended"
    /\ \E t \in ThreadIds : heartbeat.threads[t] = "calling"
    /\ heartbeat._thread = 0

\* Record k of the batch has been handled to the end of its finally block.
Handled(k) ==
    /\ batch.pc # "idle"
    /\ k \in 1..Len(batch.Records)
    /\ k < batch.message_id \/ (k = batch.message_id /\ batch.pc \in {"next", "returned"})

\* Number of entries of batch_item_failures that name record k.
TimesListed(f, k) == Cardinality({ j \in 1..Len(f) : f[j] = k })

\* Record k got the lock and its query returned fragments whose
\* primary_channel is not the trigger's.
Mismatching(k) ==
    /\ batch.Records[k].staged = "mismatch"
    /\ "lock" \in batch.effects[k]
    /\ batch.outcome[k] # "query_error"

\* A handled record that failed the consistency check of primary_channel is
\* in the list and saw neither an AI call nor a provider send.
MismatchStopsRecord(k) ==
    /\ batch.outcome[k] = "mismatch"
    /\ TimesListed(batch.batch_item_failures, k) = 1
    /\ batch.effects[k] \cap {"ai", "send"} = {}
    /\ "release" \in batch.effects[k]

\* A handled record whose body could not be used is in the list and its
\* conversation is untouched.
UnparsedNeverLocks(k) ==
    batch.Records[k].body # "valid" =>
        /\ TimesListed(batch.batch_item_failures, k) = 1
        /\ batch.effects[k] = {}
        /\ batch.status[k] = batch.Records[k].status

\* C37 as stated (malformed and mismatching records): a record with an empty
\* body, a body that is not JSON or without conversation_id or
\* primary_channel is failed without the lock being acquired; a record whose
\* primary_channel differs from the first fragment's is failed without AI
\* call or send and its conversation ends with status 'retry'.
C37_MismatchEndsInRetry ==
    \A k \in 1..MaxRecords : Handled(k) =>
        /\ UnparsedNeverLocks(k)
        /\ Mismatching(k) =>
              MismatchStopsRecord(k) /\ batch.status[k] = "retry"

\* C37 (malformed and mismatching records): as above, except that the
\* conversation of the mismatching record ends with status 'retry' only if
\* the update of release_lock_for_retry succeeded; otherwise it keeps
\* 'processing_reply'.
C37_MismatchReleases ==
    \A k \in 1..MaxRecords : Handled(k) =>
        /\ UnparsedNeverLocks(k)
        /\ Mismatching(k) =>
              /\ MismatchStopsRecord(k)
              /\ batch.status[k] = IF batch.release_success[k]
                                    THEN "retry" ELSE PROCESSING_STATUS

\* C37, reached: a batch was returned in which one record had an unusable
\* body and another failed the consistency check and was released.
C37_BothKindsHandled ==
    /\ batch.pc = "returned"
    /\ \E k \in 1..Len(batch.Records) : batch.Records[k].body # "valid"
    /\ \E k \in 1..Len(batch.Records) :
         batch.outcome[k] = "mismatch" /\ batch.status[k] = "retry"

\* The handling of record k failed.
RecordFailed(k) ==
    \/ batch.outcome[k] \in {"parse_error", "lock_db_error", "query_error",
                              "mismatch", "failed", "raised"}
    \/ batch.heartbeat_exception[k]

Unprefixed(channel_type, id) ==
    IF Len(id) >= 1 /\ id[1] = ChannelPrefix(channel_type)
    THEN SubSeq(id, 2, Len(id)) ELSE id

\* C40 (key stripping): for a whatsapp or sms webhook the index is queried
\* with sender and recipient without the channel prefix, the conversation is
\* fetched with the sender without the prefix, and the trigger carries that
\* same value as primary_channel; the lock acquisition of Stage B addresses
\* the row Stage A fetched and validated, and primary_channel of the staged
\* fragment equals the trigger's.
C40_KeysAgree ==
    /\ webhook.pc \notin {"idle", "lookup"} =>
          /\ webhook.gsi_pk_value = Unprefixed(webhook.channel_type, webhook.to)
          /\ webhook.gsi_sk_value = Unprefixed(webhook.channel_type, webhook.from)
    /\ webhook.pc \in {"stage", "send", "queued", "acquired"} =>
          webhook.primary_channel_key = Unprefixed(webhook.channel_type, webhook.from)
    /\ webhook.pc \in {"queued", "acquired"} =>
          /\ webhook.message_body.primary_channel =
                 Unprefixed(webhook.channel_type, webhook.from)
          /\ webhook.message_body.primary_channel = webhook.stage_item.primary_channel
          /\ webhook.message_body.conversation_id = webhook.stage_item.conversation_id
    /\ webhook.pc = "acquired" => webhook.lock_row = webhook.db_data

\* C40, reached: a webhook whose sender and recipient carry the whatsapp
\* prefix was staged and queued, and Stage B has taken the lock of the row
\* keyed by the bare sender number.
C40_PrefixedSenderLocked ==
    /\ webhook.pc = "acquired"
    /\ webhook.from = << "whatsapp:", "+1" >>
    /\ webhook.to = << "whatsapp:", "+9" >>
    /\ webhook.lock_row = [primary_channel |-> << "+1" >>, conversation_id |-> "c1"]
    /\ Cardinality(webhook.table) = 2

====
